---- MODULE Spec2Model ----
(***************************************************************************)
(* Model of the scylladb driver's Reporter actor                           *)
(* (app/stage/reporter/mod.rs) together with the workers it calls back     *)
(* (app/worker/mod.rs, any.rs, prepare.rs).  One connection is modelled:   *)
(* one Reporter with its free stream list, workers map, payloads array and *)
(* inbox, and the callers, the Receiver, the Sender and the stage          *)
(* supervisor as its environment.                                          *)
(***************************************************************************)
EXTENDS Integers, Sequences, FiniteSets, TLC

\* ------------------------------------------------------------------ bounds
\* Number of stream ids N of the connection: the free list starts as [1..=N].
N == 2
\* Number of callers' requests (AnyWorker instances).
MaxWorkers == 3
\* Number of frames / io errors the Receiver delivers in one behaviour.
MaxRecv == 1
\* Retry budget the callers create their workers with.
MaxRetries == 1
\* Inbox length up to which the environment submits new events.
MaxInbox == 2
\* Number of callers' requests in the behaviours that follow one request
\* through several answers (RecoverySpec).
MaxCallers == 1
\* Number of frames / io errors the Receiver delivers in those behaviours.
MaxFrames == 2
\* Number of callers that drop their result handle (DropSpec).
MaxDropped == 1

\* ------------------------------------------------------- program constants
\* the byte is_cql_error compares payload[4] with (the ERROR opcode)
ERROR == 0

\* CQL v4 opcodes of the frames the model builds and receives
Opcode(name) ==
    CASE name = "ERROR"   -> ERROR
      [] name = "QUERY"   -> 7
      [] name = "RESULT"  -> 8
      [] name = "PREPARE" -> 9
      [] name = "BATCH"   -> 13

VARIABLES
    streams,      \* Reporter.streams: Vec<i16>, the free stream ids (a stack)
    workers,      \* Reporter.workers: HashMap<i16, Box<dyn Worker>>
    payloads,     \* Payloads: one reusable Option<Vec<u8>> per stream id
    inbox,        \* the Reporter's unbounded channel of ReporterEvent
    closed,       \* the inbox has been closed (rt.inbox_mut().close())
    status,       \* "running" while in the while-let loop, "stopped" after run
    senderAlive,  \* the Sender's channel still accepts stream ids
    forwarded,    \* the stream ids sender.send(stream) has delivered, in order
    sendFailed,   \* some sender.send(stream) has failed
    shutdownSent, \* a Shutdown event has been sent to the reporter
    retries,      \* AnyWorker.retries of every worker
    results,      \* what each caller's result handle has received, in order
    cb,           \* the callbacks the reporter has made on each worker
    handed,       \* how many Request events carrying the worker the reporter received
    submitted,    \* number of workers the callers have sent to the ring
    nprep,        \* number of PrepareWorkers created so far
    nrecv,        \* number of events the Receiver has delivered so far
    dropped,      \* the workers whose caller has dropped its result handle
    \* the codec and the compression adapter, applied to one input
    pc,           \* "idle", or how far the input has been processed
    build,        \* "debug" (overflow checks on) or "release" (wrapping)
    input,        \* the value, the row or the frame the functions are applied to
    wire,         \* Vec<u8> the encoder / compress has produced
    decoded,      \* what the decoder / decompress has returned
    \* the process-wide compression switch and a thread building a BATCH frame
    MY_COMPRESSION,       \* static mut MY_COMPRESSION: the adapter selected
    MY_COMPRESSION_FLAG,  \* static mut MY_COMPRESSION_FLAG: u8
    builder,      \* the BatchBuilder of the building thread and its stage
    switcher,     \* the thread that calls MyCompression::set_*, and how far it is
    \* one Arc<AtomicHandle> and the workers that share it
    atomic,       \* the AtomicHandle, the holders of its Arc and what it delivered
    \* one iterator over the rows of a RESULT frame
    iter          \* the Iter / AnyIter, its cursor, and what next() has returned

vars == << streams, workers, payloads, inbox, closed, status, senderAlive,
           forwarded, sendFailed, shutdownSent, retries, results, cb, handed,
           submitted, nprep, nrecv, dropped, pc, build, input, wire, decoded,
           MY_COMPRESSION, MY_COMPRESSION_FLAG, builder, switcher, atomic,
           iter >>

reporterVars == << streams, workers, payloads, inbox, closed, status, senderAlive,
                   forwarded, sendFailed, shutdownSent, retries, results, cb, handed,
                   submitted, nprep, nrecv, dropped >>
codecVars == << pc, build, input, wire, decoded >>
batchVars == << MY_COMPRESSION, MY_COMPRESSION_FLAG, builder, switcher >>
\* what the reporter and its workers never touch
libraryVars == << codecVars, batchVars, atomic, iter >>
\* what the codec and the adapters, applied to one input, never touch
nonCodecVars == << reporterVars, batchVars, atomic, iter >>
nonBatchVars == << reporterVars, codecVars, atomic, iter >>
nonAtomicVars == << reporterVars, codecVars, batchVars, iter >>
nonIterVars == << reporterVars, codecVars, batchVars, atomic >>

\* ------------------------------------------------------------------- sets
StreamIds == 1..N
AnyWorkers == 1..MaxWorkers
\* every Unprepared frame leads to at most one PrepareWorker
MaxPrepare == IF MaxRecv > MaxFrames THEN MaxRecv ELSE MaxFrames
PrepareWorkers == (MaxWorkers + 1)..(MaxWorkers + MaxPrepare)
AllWorkers == AnyWorkers \cup PrepareWorkers
IsPrepareWorker(w) == w \in PrepareWorkers

\* A frame, Vec<u8>: the header bytes the reporter reads or writes, b2 b3
\* (stream, big-endian) and b4 (opcode), and an abstraction of the body:
\* what it decodes to, the statement id an Unprepared error carries, and
\* the worker whose request it is.
Frame(b2, b3, b4, kind, id, owner) ==
    [b2 |-> b2, b3 |-> b3, b4 |-> b4, kind |-> kind, id |-> id, owner |-> owner]

\* Option<Vec<u8>>::None
None == Frame(-1, -1, -1, "none", "", 0)

\* Request::payload(): the serialized request, header stream field zeroed
payload(w) ==
    Frame(0, 0, IF IsPrepareWorker(w) THEN Opcode("PREPARE") ELSE Opcode("QUERY"),
          "request", "", w)

\* The frames a server can answer on stream s: a RESULT, an ERROR that
\* decodes (Unprepared with a statement id, WriteTimeout, Invalid), and
\* frames whose body does not decode.
ResponseFrames(s) ==
    { Frame(s \div 256, s % 256, Opcode("RESULT"), "Void", "", 0) }
    \cup { Frame(s \div 256, s % 256, ERROR, "Unprepared", i, 0) : i \in {"own", "foreign"} }
    \cup { Frame(s \div 256, s % 256, ERROR, k, "", 0) : k \in {"WriteTimeout", "Invalid", "garbage"} }

\* ---------------------------------------------------------- pure functions
\* i16 >> 8 as u8 and i16 as u8, on the two's complement of the stream id
U16(stream) == (stream + 65536) % 65536

\* the stream id written little-endian
assign_stream_to_payload_swapped(stream, p) ==
    [p EXCEPT !.b2 = U16(stream) % 256, !.b3 = U16(stream) \div 256]

assign_stream_to_payload(stream, p) ==
    [p EXCEPT !.b2 = U16(stream) \div 256, !.b3 = U16(stream) % 256]

\* the discriminator read one byte too early (the low stream byte)
is_cql_error_offset3(buffer) == buffer.b3 = ERROR

is_cql_error(buffer) == buffer.b4 = ERROR

\* Decoder::try_from(buffer): fails on a frame that does not decode
DecoderOk(buffer) == buffer.kind # "garbage"

\* Request::statement_by_id: Some iff id is the md5 of the request's statement
statement_by_id(w, id) == id = "own"

\* The WorkerError the reporter builds from an ERROR frame:
\* Decoder::try_from(payload).and_then(CqlError::new).map(Cql).unwrap_or_else(Other)
DecodeError(buffer) ==
    IF DecoderOk(buffer)
    THEN [kind |-> "Cql", code |-> buffer.kind, id |-> buffer.id]
    ELSE [kind |-> "Other", code |-> "decode", id |-> ""]

WorkerError(kind) == [kind |-> kind, code |-> "", id |-> ""]

\* CqlError::take_unprepared_id
take_unprepared_id(error) ==
    IF error.kind = "Cql" /\ error.code = "Unprepared" THEN error.id ELSE ""

\* ReporterEvent
Request(w) == [type |-> "Request", worker |-> w, payload |-> payload(w), stream_id |-> 0]
Response(s) == [type |-> "Response", worker |-> 0, payload |-> None, stream_id |-> s]
Err(s) == [type |-> "Err", worker |-> 0, payload |-> None, stream_id |-> s]
Shutdown == [type |-> "Shutdown", worker |-> 0, payload |-> None, stream_id |-> 0]

\* ------------------------------------------------------ channels and ring
\* UnboundedHandle::send on the reporter's handle: fails once the inbox is closed
ReporterSendOk == ~closed

\* send_local / send_global: the ring hands the event to a reporter of the
\* replica set, here always this reporter, and fails with a RingSendError
\* that gives the event back when the delivery fails (reporter closed).
RingDelivers == ReporterSendOk

\* rt.microservices_stopped(): the reporter spawns no child services
microservices_stopped == TRUE

\* ------------------------------------------------------------- the workers
\* The part of the state a worker callback reads and writes.
World == [retries |-> retries, results |-> results, inbox |-> inbox, nprep |-> nprep]

\* HandleResult::handle_response / handle_error on the caller's handle
\* (the send fails, and the result is lost, once the receiving end is dropped)
handle_handle_response(st, w) ==
    IF w \in dropped THEN st ELSE [st EXCEPT !.results[w] = Append(@, "Ok")]
handle_handle_error(st, w, error) ==
    IF w \in dropped THEN st ELSE [st EXCEPT !.results[w] = Append(@, error.kind)]

\* the original request resubmitted ahead of the Prepare
handle_unprepared_error_resubmit_first(st, w, id) ==
    IF statement_by_id(w, id) /\ ReporterSendOk
    THEN [st EXCEPT !.nprep = @ + 1,
                    !.inbox = @ \o << Request(w), Request(MaxWorkers + st.nprep + 1) >>]
    ELSE st

\* the Unprepared error handed on to the caller as well
handle_unprepared_error_surfaced(st, w, id) ==
    LET st1 == [st EXCEPT !.results[w] = Append(@, "Cql")] IN
    IF statement_by_id(w, id) /\ ReporterSendOk
    THEN [st1 EXCEPT !.nprep = @ + 1,
                     !.inbox = @ \o << Request(MaxWorkers + st.nprep + 1), Request(w) >>]
    ELSE st1

\* handle_unprepared_error: Prepare through a new PrepareWorker on the same
\* reporter, then the original request again on the same reporter; both
\* sends are `.ok()`, and a missing statement is only logged. Always Ok(()).
handle_unprepared_error(st, w, id) ==
    IF statement_by_id(w, id)
    THEN IF ReporterSendOk
         THEN [st EXCEPT !.nprep = @ + 1,
                         !.inbox = @ \o << Request(MaxWorkers + st.nprep + 1), Request(w) >>]
         ELSE st
    ELSE st

RECURSIVE retry(_, _)
RECURSIVE Worker_handle_error(_, _, _, _)

\* a retry that also resubmits a worker that has no retry left
retry_off_by_one(st, w) ==
    IF st.retries[w] >= 0
    THEN LET st1 == [st EXCEPT !.retries[w] = @ - 1] IN
         IF RingDelivers
         THEN [st |-> [st1 EXCEPT !.inbox = Append(@, Request(w))], back |-> FALSE]
         ELSE [st |-> Worker_handle_error(st1, w, WorkerError("Other"), FALSE),
               back |-> FALSE]
    ELSE [st |-> st, back |-> TRUE]

\* RetryableWorker::retry. Gives the world after it and whether the worker
\* came back (Ok(Some(self))) for its caller to surface the error.
retry(st, w) ==
    IF st.retries[w] > 0
    THEN LET st1 == [st EXCEPT !.retries[w] = @ - 1] IN
         IF RingDelivers
         THEN [st |-> [st1 EXCEPT !.inbox = Append(@, Request(w))], back |-> FALSE]
         ELSE [st |-> Worker_handle_error(st1, w, WorkerError("Other"), FALSE),
               back |-> FALSE]
    ELSE [st |-> st, back |-> TRUE]

\* a worker that swallows the error once its retries are exhausted
AnyWorker_handle_error_silent(st, w, error, reporter) ==
    IF error.kind = "Cql" /\ take_unprepared_id(error) # "" /\ reporter
    THEN handle_unprepared_error(st, w, take_unprepared_id(error))
    ELSE retry(st, w).st

\* AnyWorker::handle_error
AnyWorker_handle_error(st, w, error, reporter) ==
    IF error.kind = "Cql" /\ take_unprepared_id(error) # "" /\ reporter
    THEN handle_unprepared_error(st, w, take_unprepared_id(error))
    ELSE LET r == retry(st, w) IN
         IF r.back THEN handle_handle_error(r.st, w, error) ELSE r.st

\* PrepareWorker::handle_error: self.retry().ok()
PrepareWorker_handle_error(st, w, error, reporter) == retry(st, w).st

\* Worker::handle_error, dispatched on the worker's type
Worker_handle_error(st, w, error, reporter) ==
    IF IsPrepareWorker(w)
    THEN PrepareWorker_handle_error(st, w, error, reporter)
    ELSE AnyWorker_handle_error(st, w, error, reporter)

\* AnyWorker::handle_response
AnyWorker_handle_response(st, w, giveload) ==
    IF DecoderOk(giveload)
    THEN handle_handle_response(st, w)
    ELSE handle_handle_error(st, w, WorkerError("Other"))

\* Worker::handle_response (PrepareWorker only logs)
Worker_handle_response(st, w, giveload) ==
    IF IsPrepareWorker(w) THEN st ELSE AnyWorker_handle_response(st, w, giveload)

\* the world after a callback, written back to the variables
SetWorld(st) ==
    /\ retries' = st.retries
    /\ results' = st.results
    /\ inbox' = st.inbox
    /\ nprep' = st.nprep

\* ------------------------------------------------------------ the reporter
\* HashMap::insert: a value already under the key is replaced (and dropped)
Insert(map, k, v) == [x \in DOMAIN map \cup {k} |-> IF x = k THEN v ELSE map[x]]
\* HashMap::remove
Remove(map, k) == [x \in DOMAIN map \ {k} |-> map[x]]

Receives(type) ==
    /\ status = "running"
    /\ inbox # << >>
    /\ Head(inbox).type = type

\* the world once the event at the head of the inbox has been taken
Taken == [World EXCEPT !.inbox = Tail(inbox)]

\* sender.send(stream).unwrap_or_else(|e| log::error!(..))
SenderSend(stream) ==
    IF senderAlive
    THEN forwarded' = Append(forwarded, stream) /\ UNCHANGED sendFailed
    ELSE sendFailed' = TRUE /\ UNCHANGED forwarded

\* run, ReporterEvent::Request with a free stream id
RunRequestAssign ==
    /\ Receives("Request")
    /\ streams # << >>
    /\ LET w == Head(inbox).worker
           stream == streams[Len(streams)]
       IN /\ streams' = SubSeq(streams, 1, Len(streams) - 1)
          /\ payloads' = [payloads EXCEPT
                            ![stream] = assign_stream_to_payload(stream, Head(inbox).payload)]
          /\ workers' = Insert(workers, stream, w)
          /\ SenderSend(stream)
          /\ handed' = [handed EXCEPT ![w] = @ + 1]
    /\ inbox' = Tail(inbox)
    /\ UNCHANGED << closed, status, senderAlive, shutdownSent, retries, results, cb,
                    submitted, nprep, nrecv, dropped, libraryVars >>

\* run, ReporterEvent::Request without a free stream id
RunRequestOverload ==
    /\ Receives("Request")
    /\ streams = << >>
    /\ LET w == Head(inbox).worker IN
       /\ SetWorld(Worker_handle_error(Taken, w, WorkerError("Overload"), TRUE))
       /\ cb' = [cb EXCEPT ![w] = Append(@, "Overload")]
       /\ handed' = [handed EXCEPT ![w] = @ + 1]
    /\ UNCHANGED << streams, workers, payloads, closed, status, senderAlive, forwarded,
                    sendFailed, shutdownSent, submitted, nrecv, dropped, libraryVars >>

\* Reporter::handle_response
handle_response(stream) ==
    /\ streams' = Append(streams, stream)
    /\ IF stream \in DOMAIN workers
       THEN LET w == workers[stream] IN
            /\ workers' = Remove(workers, stream)
            /\ IF payloads[stream] # None
               THEN /\ payloads' = [payloads EXCEPT ![stream] = None]
                    /\ IF is_cql_error(payloads[stream])
                       THEN /\ SetWorld(Worker_handle_error(
                                        Taken, w, DecodeError(payloads[stream]), TRUE))
                            /\ cb' = [cb EXCEPT ![w] = Append(@, DecodeError(payloads[stream]).kind)]
                       ELSE /\ SetWorld(Worker_handle_response(Taken, w, payloads[stream]))
                            /\ cb' = [cb EXCEPT ![w] = Append(@, "response")]
               ELSE /\ SetWorld(Taken)
                    /\ UNCHANGED << payloads, cb >>
       ELSE /\ SetWorld(Taken)
            /\ UNCHANGED << workers, payloads, cb >>

\* a handle_error that leaves the payload parked in its slot
handle_error_keeps_payload(stream, error) ==
    /\ streams' = Append(streams, stream)
    /\ IF stream \in DOMAIN workers
       THEN LET w == workers[stream] IN
            /\ workers' = Remove(workers, stream)
            /\ IF payloads[stream] # None
               THEN /\ UNCHANGED payloads
                    /\ SetWorld(Worker_handle_error(Taken, w, error, TRUE))
                    /\ cb' = [cb EXCEPT ![w] = Append(@, error.kind)]
               ELSE /\ SetWorld(Taken)
                    /\ UNCHANGED << payloads, cb >>
       ELSE /\ SetWorld(Taken)
            /\ UNCHANGED << workers, payloads, cb >>

\* Reporter::handle_error
handle_error(stream, error) ==
    /\ streams' = Append(streams, stream)
    /\ IF stream \in DOMAIN workers
       THEN LET w == workers[stream] IN
            /\ workers' = Remove(workers, stream)
            /\ IF payloads[stream] # None
               THEN /\ payloads' = [payloads EXCEPT ![stream] = None]
                    /\ SetWorld(Worker_handle_error(Taken, w, error, TRUE))
                    /\ cb' = [cb EXCEPT ![w] = Append(@, error.kind)]
               ELSE /\ SetWorld(Taken)
                    /\ UNCHANGED << payloads, cb >>
       ELSE /\ SetWorld(Taken)
            /\ UNCHANGED << workers, payloads, cb >>

\* run, ReporterEvent::Response
RunResponse ==
    /\ Receives("Response")
    /\ handle_response(Head(inbox).stream_id)
    /\ UNCHANGED << closed, status, senderAlive, forwarded, sendFailed, shutdownSent,
                    handed, submitted, nrecv, dropped, libraryVars >>

\* run, ReporterEvent::Err
RunErr ==
    /\ Receives("Err")
    /\ handle_error(Head(inbox).stream_id, WorkerError("Other"))
    /\ UNCHANGED << closed, status, senderAlive, forwarded, sendFailed, shutdownSent,
                    handed, submitted, nrecv, dropped, libraryVars >>

\* a Shutdown handler that stops the children but leaves the inbox open
RunShutdown_open ==
    /\ Receives("Shutdown")
    /\ inbox' = Tail(inbox)
    /\ UNCHANGED << streams, workers, payloads, closed, status, senderAlive, forwarded,
                    sendFailed, shutdownSent, retries, results, cb, handed, submitted,
                    nprep, nrecv, dropped, libraryVars >>

\* run, ReporterEvent::Shutdown
RunShutdown ==
    /\ Receives("Shutdown")
    /\ inbox' = Tail(inbox)
    /\ closed' = (closed \/ microservices_stopped)
    /\ UNCHANGED << streams, workers, payloads, status, senderAlive, forwarded, sendFailed,
                    shutdownSent, retries, results, cb, handed, submitted, nprep, nrecv, dropped, libraryVars >>

\* the orders in which HashMap::drain can yield the keys of the map
DrainOrders(map) ==
    { o \in [1..Cardinality(DOMAIN map) -> DOMAIN map] :
        \A i, j \in DOMAIN o : i # j => o[i] # o[j] }

RECURSIVE NotifyLost(_, _, _)
\* the workers under order[i..] are told handle_error(WorkerError::Lost, Some(handle))
NotifyLost(st, order, i) ==
    IF i > Len(order)
    THEN st
    ELSE NotifyLost(Worker_handle_error(st, workers[order[i]], WorkerError("Lost"), TRUE),
                    order, i + 1)

\* the loop ends without draining the workers map
force_consistency_skipped ==
    /\ SetWorld(World)
    /\ UNCHANGED << streams, workers, cb >>

\* Reporter::force_consistency
force_consistency ==
    \E order \in DrainOrders(workers) :
        /\ streams' = streams \o order
        /\ workers' = << >>
        /\ SetWorld(NotifyLost(World, order, 1))
        /\ cb' = [w \in AllWorkers |->
                    IF \E s \in DOMAIN workers : workers[s] = w
                    THEN Append(cb[w], "Lost")
                    ELSE cb[w]]

\* run: the inbox yields None (closed and empty), the loop ends
RunExit ==
    /\ status = "running"
    /\ closed
    /\ inbox = << >>
    /\ force_consistency
    /\ status' = "stopped"
    /\ UNCHANGED << payloads, closed, senderAlive, forwarded, sendFailed, shutdownSent,
                    handed, submitted, nrecv, dropped, libraryVars >>

\* --------------------------------------------------------- the environment
\* A caller creates its worker with a retry budget and sends it through the
\* ring (RetryableWorker::send_local / send_global); a RingSendError is fed
\* to the worker as handle_error(Other("Retrying on the fly"), None).
SubmitUpTo(callers) ==
    /\ submitted < callers
    /\ Len(inbox) < MaxInbox
    /\ LET w == submitted + 1 IN
       LET st == [World EXCEPT !.retries[w] = MaxRetries] IN
       IF RingDelivers
       THEN SetWorld([st EXCEPT !.inbox = Append(@, Request(w))])
       ELSE SetWorld(Worker_handle_error(st, w, WorkerError("Other"), FALSE))
    /\ submitted' = submitted + 1
    /\ UNCHANGED << streams, workers, payloads, closed, status, senderAlive, forwarded,
                    sendFailed, shutdownSent, cb, handed, nrecv, dropped, libraryVars >>

Submit == SubmitUpTo(MaxWorkers)

\* The Receiver has read a frame with stream id s off the socket: it parks
\* the frame in payloads[s] and tells the reporter Response{s}.
ReceiverResponseUpTo(frames) ==
    /\ nrecv < frames
    /\ Len(inbox) < MaxInbox
    /\ ReporterSendOk
    /\ \E s \in StreamIds : \E f \in ResponseFrames(s) :
          /\ payloads' = [payloads EXCEPT ![s] = f]
          /\ inbox' = Append(inbox, Response(s))
    /\ nrecv' = nrecv + 1
    /\ UNCHANGED << streams, workers, closed, status, senderAlive, forwarded, sendFailed,
                    shutdownSent, retries, results, cb, handed, submitted, nprep, dropped, libraryVars >>

ReceiverResponse == ReceiverResponseUpTo(MaxRecv)

\* The Receiver failed reading the frame of stream id s: Err(error, s).
ReceiverErrUpTo(frames) ==
    /\ nrecv < frames
    /\ Len(inbox) < MaxInbox
    /\ ReporterSendOk
    /\ \E s \in StreamIds : inbox' = Append(inbox, Err(s))
    /\ nrecv' = nrecv + 1
    /\ UNCHANGED << streams, workers, payloads, closed, status, senderAlive, forwarded,
                    sendFailed, shutdownSent, retries, results, cb, handed, submitted, nprep, dropped, libraryVars >>

ReceiverErr == ReceiverErrUpTo(MaxRecv)

\* A caller that is still waiting drops its result handle (the receiving end
\* of the channel the worker's handle sends on).
DropHandle ==
    /\ Cardinality(dropped) < MaxDropped
    /\ \E w \in 1..submitted :
          /\ w \notin dropped
          /\ results[w] = << >>
          /\ dropped' = dropped \cup {w}
    /\ UNCHANGED << streams, workers, payloads, inbox, closed, status, senderAlive, forwarded,
                    sendFailed, shutdownSent, retries, results, cb, handed, submitted,
                    nprep, nrecv, libraryVars >>

\* The supervisor shuts the reporter down (ShutdownEvent::shutdown_event).
SupervisorShutdown ==
    /\ ~shutdownSent
    /\ senderAlive
    /\ ReporterSendOk
    /\ inbox' = Append(inbox, Shutdown)
    /\ shutdownSent' = TRUE
    /\ UNCHANGED << streams, workers, payloads, closed, status, senderAlive, forwarded,
                    sendFailed, retries, results, cb, handed, submitted, nprep, nrecv, dropped, libraryVars >>

\* The Sender task ends (socket write failure): its channel is closed.
SenderFail ==
    /\ senderAlive
    /\ senderAlive' = FALSE
    /\ UNCHANGED << streams, workers, payloads, inbox, closed, status, forwarded, sendFailed,
                    shutdownSent, retries, results, cb, handed, submitted, nprep, nrecv, dropped, libraryVars >>

\* The stage, told that its Sender ended, shuts the Reporter down.
StagePropagate ==
    /\ ~senderAlive
    /\ ~shutdownSent
    /\ ReporterSendOk
    /\ inbox' = Append(inbox, Shutdown)
    /\ shutdownSent' = TRUE
    /\ UNCHANGED << streams, workers, payloads, closed, status, senderAlive, forwarded,
                    sendFailed, retries, results, cb, handed, submitted, nprep, nrecv, dropped, libraryVars >>

\* ------------------------------------------------------- the specification
\* Reporter::new(streams) with streams = [1..=N], and Payloads all None
ReporterInit ==
    /\ streams = [i \in 1..N |-> i]
    /\ workers = << >>
    /\ payloads = [s \in StreamIds |-> None]
    /\ inbox = << >>
    /\ closed = FALSE
    /\ status = "running"
    /\ senderAlive = TRUE
    /\ forwarded = << >>
    /\ sendFailed = FALSE
    /\ shutdownSent = FALSE
    /\ retries = [w \in AllWorkers |-> 0]
    /\ results = [w \in AllWorkers |-> << >>]
    /\ cb = [w \in AllWorkers |-> << >>]
    /\ handed = [w \in AllWorkers |-> 0]
    /\ submitted = 0
    /\ nprep = 0
    /\ nrecv = 0
    /\ dropped = {}

\* no column is being encoded or decoded
CodecIdle ==
    /\ pc = "idle"
    /\ build = "release"
    /\ input = << >>
    /\ wire = << >>
    /\ decoded = << >>

\* the switch as the statics are initialised, and no frame being built
BatchIdle ==
    /\ MY_COMPRESSION = "Uncompressed"
    /\ MY_COMPRESSION_FLAG = 0
    /\ builder = [stage |-> "none"]
    /\ switcher = [pc |-> "idle", target |-> "Uncompressed", n |-> 0]

\* AtomicHandle::new(handle, reference): the caller holds the only Arc
AtomicHandle_new ==
    [strong |-> { 0 }, handle |-> "Some", any_error |-> 0, spawned |-> 0,
     called |-> FALSE, taken |-> FALSE, out |-> << >>]

AtomicIdle == atomic = AtomicHandle_new

\* no result set is being iterated
IterIdle == iter = [kind |-> "none"]

NonCodecIdle == ReporterInit /\ BatchIdle /\ AtomicIdle /\ IterIdle

Init == NonCodecIdle /\ CodecIdle

Run == RunRequestAssign \/ RunRequestOverload \/ RunResponse \/ RunErr \/ RunShutdown \/ RunExit

Next ==
    \/ RunRequestAssign
    \/ RunRequestOverload
    \/ RunResponse
    \/ RunErr
    \/ RunShutdown
    \/ RunExit
    \/ Submit
    \/ ReceiverResponse
    \/ ReceiverErr
    \/ SupervisorShutdown
    \/ SenderFail
    \/ StagePropagate

Spec == Init /\ [][Next]_vars

\* One connection followed through the answers to a few requests: fewer
\* callers, more frames from the Receiver.
SubmitFew == SubmitUpTo(MaxCallers)
ReceiverResponseMany == ReceiverResponseUpTo(MaxFrames)
ReceiverErrMany == ReceiverErrUpTo(MaxFrames)

RecoveryNext ==
    \/ RunRequestAssign
    \/ RunRequestOverload
    \/ RunResponse
    \/ RunErr
    \/ RunShutdown
    \/ RunExit
    \/ SubmitFew
    \/ ReceiverResponseMany
    \/ ReceiverErrMany
    \/ SupervisorShutdown
    \/ SenderFail
    \/ StagePropagate

RecoverySpec == Init /\ [][RecoveryNext]_vars

\* The connection with callers that may give up waiting.
DropNext ==
    \/ RunRequestAssign
    \/ RunRequestOverload
    \/ RunResponse
    \/ RunErr
    \/ RunShutdown
    \/ RunExit
    \/ Submit
    \/ ReceiverResponse
    \/ ReceiverErr
    \/ SupervisorShutdown
    \/ SenderFail
    \/ StagePropagate
    \/ DropHandle

DropSpec == Init /\ [][DropNext]_vars

\* The reporter task is scheduled as long as it has an event to take, and the
\* stage reacts to the end of its Sender.
FairSpec == Spec /\ WF_vars(Run) /\ WF_vars(StagePropagate)

\* ---------------------------------------------------------------- claims
\* helpers of the properties below
FreeIds == { streams[i] : i \in DOMAIN streams }
InFlightIds == DOMAIN workers
NoDuplicates(seq) == \A i, j \in DOMAIN seq : i # j => seq[i] # seq[j]
IsInFlight(w) == \E s \in DOMAIN workers : workers[s] = w
IsQueued(w) == \E i \in DOMAIN inbox : inbox[i].type = "Request" /\ inbox[i].worker = w
Calls(w) == { cb[w][i] : i \in DOMAIN cb[w] }
\* the reporter takes the Request at the head of its inbox in this step
TakesRequest == Receives("Request") /\ handed' # handed
\* the reporter takes the Response at the head of its inbox in this step
TakesResponse == Receives("Response") /\ Len(streams') = Len(streams) + 1 /\ status' = "running"
TopStream == streams[Len(streams)]
Last(seq) == seq[Len(seq)]

\* C1: at every instant the free stream ids and the in-flight stream ids (the
\* keys of the workers map) are disjoint, hold no duplicates, and together
\* are exactly 1..N.
C1_StreamsPartition ==
    /\ NoDuplicates(streams)
    /\ FreeIds \cap InFlightIds = {}
    /\ FreeIds \cup InFlightIds = StreamIds

\* C2: the result handle of every submitted request observes exactly one
\* terminal result: never more than one, and one as soon as its worker is
\* neither waiting in the inbox nor registered with the reporter.
C2_ExactlyOneResult ==
    \A w \in AnyWorkers :
        /\ Len(results[w]) <= 1
        /\ (w <= submitted /\ ~IsQueued(w) /\ ~IsInFlight(w)) => Len(results[w]) = 1

\* C3: every worker handed to the reporter in a Request gets exactly one
\* terminal callback for it: each hand-over is answered by one callback, or
\* is still in flight.
C3_ExactlyOneCallback ==
    \A w \in AllWorkers :
        Len(cb[w]) + Cardinality({ s \in DOMAIN workers : workers[s] = w }) = handed[w]

\* C4: registering a worker under a stream id never replaces a worker that
\* is still in flight under that id.
C4_NoReplacement ==
    [][\A s \in DOMAIN workers : s \in DOMAIN workers' => workers'[s] = workers[s]]_vars

\* C5: when all N stream ids are in flight the next Request is rejected: its
\* worker gets handle_error(Overload), no stream id is assigned, nothing is
\* forwarded to the sender, workers map and payloads are unchanged.
C5_OverloadWhenAllInFlight ==
    [][(TakesRequest /\ InFlightIds = StreamIds) =>
          /\ cb'[Head(inbox).worker] = Append(cb[Head(inbox).worker], "Overload")
          /\ streams' = streams
          /\ forwarded' = forwarded
          /\ workers' = workers
          /\ payloads' = payloads]_vars

\* C6: on a Request with a free stream id, the id is popped from the free
\* list, written big-endian into bytes 2..3 of the payload, the payload is
\* parked in payloads[stream], the worker is inserted under the id and the
\* same id is handed to the Sender.
C6_RequestAssigned ==
    [][(TakesRequest /\ streams # << >>) =>
          /\ streams' = SubSeq(streams, 1, Len(streams) - 1)
          /\ payloads'[TopStream] =
                [Head(inbox).payload EXCEPT !.b2 = TopStream \div 256, !.b3 = TopStream % 256]
          /\ \A s \in StreamIds \ {TopStream} : payloads'[s] = payloads[s]
          /\ TopStream \in DOMAIN workers'
          /\ workers'[TopStream] = Head(inbox).worker
          /\ senderAlive => forwarded' = Append(forwarded, TopStream)
          /\ ~senderAlive => forwarded' = forwarded /\ sendFailed']_vars

\* a request has been assigned a stream id, parked and forwarded
C6_Witness ==
    \E s \in DOMAIN workers :
        /\ payloads[s].kind = "request"
        /\ payloads[s].owner = workers[s]
        /\ payloads[s].b3 = s
        /\ forwarded # << >>
        /\ Last(forwarded) = s

\* C7 as claimed: on Response{stream} for a registered worker the id goes
\* back to the free list, the worker is removed, and it gets handle_error
\* with the decoded CqlError if byte 4 of the parked frame is 0x00 and
\* handle_response otherwise.
C7_ResponseDispatch ==
    [][(TakesResponse /\ Head(inbox).stream_id \in DOMAIN workers) =>
          LET s == Head(inbox).stream_id
              w == workers[s]
          IN /\ streams' = Append(streams, s)
             /\ s \notin DOMAIN workers'
             /\ cb'[w] = Append(cb[w], IF payloads[s].b4 = 0 THEN "Cql" ELSE "response")]_vars

\* C7 amended: as above, but an ERROR frame that fails to decode reaches the
\* worker as handle_error(WorkerError::Other(decode error)).
C7_ResponseDispatchAmended ==
    [][(TakesResponse /\ Head(inbox).stream_id \in DOMAIN workers) =>
          LET s == Head(inbox).stream_id
              w == workers[s]
          IN /\ streams' = Append(streams, s)
             /\ s \notin DOMAIN workers'
             /\ payloads'[s] = None
             /\ cb'[w] = Append(cb[w],
                    IF payloads[s].b4 = 0
                    THEN IF payloads[s].kind = "garbage" THEN "Other" ELSE "Cql"
                    ELSE "response")]_vars

\* a worker has been answered with a decoded CqlError and its id is free again
C7_Witness ==
    \E w \in AnyWorkers :
        /\ "Cql" \in Calls(w)
        /\ ~IsInFlight(w)
        /\ \E s \in StreamIds : s \in FreeIds /\ payloads[s] = None

\* the reporter has taken a Shutdown event out of its inbox
ShutdownProcessed ==
    shutdownSent /\ \A i \in DOMAIN inbox : inbox[i].type # "Shutdown"

\* C8 as claimed: once Shutdown has been processed no Request is assigned a
\* stream id, registered in the workers map or forwarded to the Sender.
C8_NoAssignAfterShutdown ==
    [][ShutdownProcessed =>
          /\ DOMAIN workers' \subseteq DOMAIN workers
          /\ forwarded' = forwarded
          /\ Len(streams') >= Len(streams)]_vars

\* C8 amended: once Shutdown has been processed the inbox takes no new
\* event: it only shrinks, a later send fails and gives the worker back.
C8_NoEnqueueAfterShutdown ==
    [][ShutdownProcessed =>
          \E k \in 1..(Len(inbox) + 1) : inbox' = SubSeq(inbox, k, Len(inbox))]_vars

\* a request sent after the Shutdown was processed came back with an error
\* without ever reaching the reporter
C8_Witness ==
    /\ ShutdownProcessed
    /\ closed
    /\ \E w \in AnyWorkers : w <= submitted /\ handed[w] = 0 /\ results[w] = << "Other" >>

\* C9: when the reporter terminates every worker still in flight is told
\* handle_error(Lost) once and its id goes back to the free list, so that
\* the workers map is empty and the free list holds exactly 1..N.
C9_DrainAtExit ==
    [][(status = "running" /\ status' = "stopped") =>
          /\ \A s \in DOMAIN workers : cb'[workers[s]] = Append(cb[workers[s]], "Lost")
          /\ DOMAIN workers' = {}
          /\ NoDuplicates(streams')
          /\ { streams'[i] : i \in DOMAIN streams' } = StreamIds]_vars

\* the reporter loop has an event to take, or its closed inbox has run dry
\* and it leaves the loop: the states in which Run is enabled
ReporterHasStep == status = "running" /\ (inbox # << >> \/ closed)
\* the stage has yet to react to the end of its Sender: StagePropagate is enabled
StageHasStep == ~senderAlive /\ ~shutdownSent /\ ReporterSendOk

Rest == IF inbox = << >> THEN << >> ELSE Tail(inbox)
\* the frame the Response at the head of the inbox stands for
HeadFrame == payloads[Head(inbox).stream_id]
\* in this step the reporter calls handle_error on worker w
ErrorCallback(w) == Len(cb'[w]) = Len(cb[w]) + 1 /\ Last(cb'[w]) # "response"
\* ... with an Unprepared error it has decoded from an ERROR frame
UnpreparedCallback(w) ==
    /\ ErrorCallback(w)
    /\ Receives("Response")
    /\ HeadFrame.kind = "Unprepared"
\* ... with an error of the retry path (anything but Unprepared)
RetryableCallback(w) == ErrorCallback(w) /\ ~UnpreparedCallback(w)
\* the worker is sent again: one retry less, a Request for it at the back of
\* the inbox, nothing on the caller's handle
Resubmitted(w) ==
    /\ retries'[w] = retries[w] - 1
    /\ inbox' = Append(Rest, Request(w))
    /\ results'[w] = results[w]
\* the error reaches the caller's handle and the worker is not sent again
Surfaced(w, kind) ==
    /\ retries'[w] = retries[w]
    /\ results'[w] = Append(results[w], kind)
    /\ \A i \in DOMAIN inbox' : inbox'[i] # Request(w)

\* C11 as claimed: a worker that gets a retryable error with retries > 0
\* loses exactly one retry and is resubmitted; with retries = 0 the error is
\* surfaced on the caller's handle and the worker is not resubmitted.
C11_RetryOrSurface ==
    [][\A w \in AnyWorkers : RetryableCallback(w) =>
          IF retries[w] > 0 THEN Resubmitted(w) ELSE Surfaced(w, Last(cb'[w]))]_vars

\* C11 amended: as above as long as send_global delivers; when it fails the
\* worker is fed Other("Retrying on the fly") without a reporter, which
\* uses up the retries that are left and surfaces that error instead.
C11_RetryOrSurfaceAmended ==
    [][\A w \in AnyWorkers : RetryableCallback(w) =>
          IF retries[w] > 0
          THEN IF RingDelivers
               THEN Resubmitted(w)
               ELSE /\ retries'[w] = 0
                    /\ results'[w] = Append(results[w], "Other")
                    /\ \A i \in DOMAIN inbox' : inbox'[i] # Request(w)
          ELSE Surfaced(w, Last(cb'[w]))]_vars

\* a worker has used a retry and waits in the inbox again, and another one
\* has had its error surfaced with no retry left
C11_Witness ==
    /\ \E w \in AnyWorkers :
          cb[w] # << >> /\ retries[w] = MaxRetries - 1 /\ IsQueued(w) /\ results[w] = << >>
    /\ \E w \in AnyWorkers :
          cb[w] # << >> /\ retries[w] = 0 /\ ~IsQueued(w) /\ Len(results[w]) = 1

\* C12: an Invalid error (one of the codes the policy never retries) is
\* surfaced to the caller without resubmission even when retries > 0.
C12_InvalidNeverRetried ==
    [][\A w \in AnyWorkers :
          (ErrorCallback(w) /\ Receives("Response") /\ HeadFrame.kind = "Invalid") =>
              Surfaced(w, "Cql")]_vars

\* C13: on Unprepared{id} with the statement found, a PREPARE carried by a
\* new PrepareWorker and then the original request are enqueued on the
\* reporter that delivered the error, in this order and next to each other;
\* no retry is used and nothing reaches the caller. Both go to the same
\* handle, so either both are enqueued or (inbox closed) neither is.
C13_PrepareBeforeResubmit ==
    [][\A w \in AnyWorkers :
          (UnpreparedCallback(w) /\ statement_by_id(w, HeadFrame.id)) =>
              /\ retries'[w] = retries[w]
              /\ results'[w] = results[w]
              /\ IF ReporterSendOk
                 THEN \E p \in PrepareWorkers :
                        /\ inbox' = Rest \o << Request(p), Request(w) >>
                        /\ Request(p).payload.b4 = Opcode("PREPARE")
                        /\ handed[p] = 0 /\ ~IsQueued(p)
                 ELSE inbox' = Rest]_vars

\* the PREPARE has been taken and assigned a stream id while the resubmitted
\* request still waits behind it
C13_Witness ==
    \E w \in AnyWorkers, p \in PrepareWorkers :
        /\ IsInFlight(p)
        /\ IsQueued(w)
        /\ handed[w] = 1
        /\ retries[w] = MaxRetries

\* every callback the worker has had but the last delivered an Unprepared
\* error it recovered from, and the last one a RESULT frame
RecoveredThenAnswered(w) ==
    /\ Len(cb[w]) >= 2
    /\ \A i \in 1..(Len(cb[w]) - 1) : cb[w][i] = "Cql"
    /\ Last(cb[w]) = "response"
    /\ retries[w] = MaxRetries

\* C14: an Unprepared error delivered by the reporter never reaches the
\* caller's handle, and once the resubmitted request has been answered
\* successfully the handle holds exactly one result, the success.
C14_UnpreparedNotSurfaced ==
    [][\A w \in AnyWorkers :
          /\ UnpreparedCallback(w) => results'[w] = results[w]
          /\ RecoveredThenAnswered(w)' => results'[w] = << "Ok" >>]_vars

\* a request answered UNPREPARED, resubmitted and then answered with a RESULT
C14_Witness ==
    \E w \in AnyWorkers :
        /\ RecoveredThenAnswered(w)
        /\ handed[w] = 2
        /\ results[w] = << "Ok" >>
        /\ \E p \in PrepareWorkers : handed[p] = 1

\* C15: an Unprepared{id} error whose id is not in the request's statement
\* map is surfaced on the caller's result handle.
C15_MissingStatementSurfaced ==
    [][\A w \in AnyWorkers :
          (UnpreparedCallback(w) /\ ~statement_by_id(w, HeadFrame.id)) =>
              results'[w] = Append(results[w], "Cql")]_vars

\* the reporter takes the Response or Err event of stream id s in this step
Arrives(s) ==
    /\ Receives("Response") \/ Receives("Err")
    /\ Head(inbox).stream_id = s

\* C16: a worker whose caller has dropped the result handle stays registered
\* under its stream id, and the id stays out of the free list, until the
\* answer for that id arrives (or the reporter stops); the answer is then
\* handled by the worker and discarded, and the id goes back to the free list.
C16_DroppedStaysInFlight ==
    [][\A s \in DOMAIN workers : workers[s] \in dropped =>
          \/ /\ s \in DOMAIN workers'
             /\ workers'[s] = workers[s]
             /\ s \notin { streams'[i] : i \in DOMAIN streams' }
          \/ /\ Arrives(s)
             /\ s \notin DOMAIN workers'
             /\ streams' = Append(streams, s)
             /\ Len(cb'[workers[s]]) = Len(cb[workers[s]]) + 1
             /\ results'[workers[s]] = results[workers[s]]
          \/ status' = "stopped"]_vars

\* =========================================================== the CQL codec
\* (cql/frame/encoder.rs, cql/frame/decoder.rs, cql/frame/rows.rs)
\* Longest string and longest list among the values drawn.
MaxLen == 2

\* the lengths ColumnEncoder::encode writes in front of fixed-size columns
BE_4_BYTES_LEN == << 0, 0, 0, 4 >>
BE_1_BYTES_LEN == << 0, 0, 0, 1 >>
BE_NULL_BYTES_LEN == << 255, 255, 255, 255 >>
BE_UNSET_BYTES_LEN == << 255, 255, 255, 254 >>
\* NaiveDate::num_days_from_ce() of 1970-01-01
EpochDaysFromCe == 719163

\* byte i (0 = least significant) of a natural number
ByteOf(n, i) == (n \div (256 ^ i)) % 256

\* i32::to_be_bytes (two's complement: the bytes of n < 0 are the inverted
\* bytes of -n - 1)
i32_to_be_bytes(n) ==
    IF n >= 0
    THEN << ByteOf(n, 3), ByteOf(n, 2), ByteOf(n, 1), ByteOf(n, 0) >>
    ELSE << 255 - ByteOf(-n - 1, 3), 255 - ByteOf(-n - 1, 2),
            255 - ByteOf(-n - 1, 1), 255 - ByteOf(-n - 1, 0) >>

\* i32::from_be_bytes
i32_from_be_bytes(b) ==
    IF b[1] < 128
    THEN b[1] * 16777216 + b[2] * 65536 + b[3] * 256 + b[4]
    ELSE -((255 - b[1]) * 16777216 + (255 - b[2]) * 65536 + (255 - b[3]) * 256 + (255 - b[4])) - 1

\* A Rust type is the sequence of its constructors: << "Vec", "Option", "i32" >>
\* is Vec<Option<i32>>.
Ty(name) == << name >>
OptionOf(T) == << "Option" >> \o T
VecOf(T) == << "Vec" >> \o T

\* Default::default() of the type, the payload of a None in the model
RECURSIVE DefaultOf(_)
DefaultOf(T) ==
    CASE Head(T) = "i32" -> 0
      [] Head(T) = "bool" -> FALSE
      [] Head(T) = "String" -> << >>
      [] Head(T) = "NaiveDate" -> 0
      [] Head(T) = "Option" -> [some |-> FALSE, v |-> DefaultOf(Tail(T))]
      [] Head(T) = "Vec" -> << >>

NoneOf(T) == [some |-> FALSE, v |-> DefaultOf(T)]
Some(x) == [some |-> TRUE, v |-> x]

\* sequences of at most n elements of S
SeqUpTo(S, n) == UNION { [1..k -> S] : k \in 0..n }

RECURSIVE Flatten(_)
Flatten(ss) == IF ss = << >> THEN << >> ELSE Head(ss) \o Flatten(Tail(ss))

\* ------------------------------------------------------------ the encoder
RECURSIVE encode(_, _)
RECURSIVE encode_column(_, _)

\* ColumnEncoder::encode_column: the column without its length
encode_column(T, v) ==
    CASE Head(T) = "i32" -> i32_to_be_bytes(v)
      [] Head(T) = "bool" -> << IF v THEN 1 ELSE 0 >>
      [] Head(T) = "String" -> v
      [] Head(T) = "NaiveDate" ->
            \* num_days_from_ce() as u32 - 719_163 + (1u32 << 31), wrapping:
            \* adding 2^31 modulo 2^32 flips the top bit
            LET d == i32_to_be_bytes(v - EpochDaysFromCe)
            IN << (d[1] + 128) % 256, d[2], d[3], d[4] >>
      [] Head(T) = "Option" ->
            IF v.some THEN encode(Tail(T), v.v) ELSE BE_UNSET_BYTES_LEN
      [] Head(T) = "Vec" ->
            i32_to_be_bytes(Len(v)) \o Flatten([i \in DOMAIN v |-> encode(Tail(T), v[i])])

\* ColumnEncoder::encode: the column behind its big-endian length
encode(T, v) ==
    CASE Head(T) = "i32" -> BE_4_BYTES_LEN \o encode_column(T, v)
      [] Head(T) = "bool" -> BE_1_BYTES_LEN \o encode_column(T, v)
      [] Head(T) = "String" -> i32_to_be_bytes(Len(v)) \o encode_column(T, v)
      [] Head(T) = "NaiveDate" -> BE_4_BYTES_LEN \o encode_column(T, v)
      [] Head(T) = "Option" -> encode_column(T, v)
      [] Head(T) = "Vec" ->
            LET column == encode_column(T, v) IN i32_to_be_bytes(Len(column)) \o column

\* whether encoding v overflows an unsigned subtraction (a panic when the
\* build checks overflow): a date before 1970-01-01
RECURSIVE encode_overflows(_, _)
encode_overflows(T, v) ==
    CASE Head(T) = "NaiveDate" -> v < EpochDaysFromCe
      [] Head(T) = "Option" -> v.some /\ encode_overflows(Tail(T), v.v)
      [] Head(T) = "Vec" -> \E i \in DOMAIN v : encode_overflows(Tail(T), v[i])
      [] OTHER -> FALSE

\* what the thread that encodes is left with after a panic
Panicked == << -1 >>

\* ColumnEncoder::encode_new
encode_new(T, v) ==
    IF build = "debug" /\ encode_overflows(T, v) THEN Panicked ELSE encode(T, v)

\* ------------------------------------------------------------ the decoder
\* anyhow::Result<T> of a read, with what is left in the reader
Ok(val, rest) == [ok |-> TRUE, val |-> val, rest |-> rest]
Failed(why) == [ok |-> FALSE, val |-> why, rest |-> << >>]

\* Read::read_exact of n bytes
read_exact(reader, n) ==
    IF Len(reader) >= n
    THEN Ok(SubSeq(reader, 1, n), SubSeq(reader, n + 1, Len(reader)))
    ELSE Failed("Err")

\* Read::take(len): the reader cut off after len bytes
take(reader, len) == SubSeq(reader, 1, IF len < Len(reader) THEN len ELSE Len(reader))

\* the reader behind a Take handle once the handle has been read down to left
after_take(reader, handle, left) ==
    SubSeq(reader, Len(handle) - Len(left) + 1, Len(reader))

RECURSIVE try_decode(_, _)
RECURSIVE try_decode_column(_, _)
RECURSIVE decode_items(_, _, _, _)

\* the loop `for _ in 0..list_len { list.push(E::try_decode(reader)?) }`
decode_items(T, n, reader, list) ==
    IF n <= 0
    THEN Ok(list, reader)
    ELSE LET item == try_decode(T, reader) IN
         IF item.ok
         THEN decode_items(T, n - 1, item.rest, Append(list, item.val))
         ELSE item

\* a length cell and the column of type T behind it, read through a Take
\* handle when len > 0; otherwise Option<T> (optional) answers None and any
\* other type decodes from io::empty()
decode_behind_length(T, reader, optional) ==
    LET len == read_exact(reader, 4) IN
    IF ~len.ok THEN len
    ELSE IF i32_from_be_bytes(len.val) > 0
         THEN LET handle == take(len.rest, i32_from_be_bytes(len.val))
                  col == try_decode_column(T, handle)
              IN IF col.ok
                 THEN Ok(IF optional THEN Some(col.val) ELSE col.val,
                         after_take(len.rest, handle, col.rest))
                 ELSE col
         ELSE IF optional
              THEN Ok(NoneOf(T), len.rest)
              ELSE LET col == try_decode_column(T, << >>) IN
                   IF col.ok THEN Ok(col.val, len.rest) ELSE col

\* ColumnDecoder::try_decode_column
try_decode_column(T, reader) ==
    CASE Head(T) = "i32" ->
            LET r == read_exact(reader, 4) IN
            IF r.ok THEN Ok(i32_from_be_bytes(r.val), r.rest) ELSE r
      [] Head(T) = "bool" ->
            LET r == read_exact(reader, 1) IN
            IF r.ok THEN Ok(r.val[1] # 0, r.rest) ELSE r
      [] Head(T) = "String" ->
            \* read_to_string: everything left, which must be UTF-8 (the
            \* bytes drawn are ASCII; a lone byte >= 0x80 is not UTF-8)
            IF \E i \in DOMAIN reader : reader[i] >= 128
            THEN Failed("Err")
            ELSE Ok(reader, << >>)
      [] Head(T) = "NaiveDate" ->
            \* u32::try_decode_column(reader)? - (1u32 << 31), then
            \* epoch.checked_add_signed(Duration::days(num_days as i64))
            LET r == read_exact(reader, 4) IN
            IF ~r.ok THEN r
            ELSE IF r.val[1] >= 128
                 THEN Ok(EpochDaysFromCe
                           + i32_from_be_bytes(<< r.val[1] - 128, r.val[2], r.val[3], r.val[4] >>),
                         r.rest)
                 ELSE IF build = "debug"
                      THEN Failed("panic")
                      \* wrapped: at least 2^31 days after the epoch, out of range
                      ELSE Failed("Err")
      [] Head(T) = "Option" ->
            \* the inner column is decoded with T::try_decode_column
            decode_behind_length(Tail(T), reader, TRUE)
      [] Head(T) = "Vec" ->
            LET n == read_exact(reader, 4) IN
            IF n.ok THEN decode_items(Tail(T), i32_from_be_bytes(n.val), n.rest, << >>) ELSE n

\* ColumnDecoder::try_decode (Option<T> overrides it with try_decode_column)
try_decode(T, reader) ==
    IF Head(T) = "Option"
    THEN try_decode_column(T, reader)
    ELSE decode_behind_length(T, reader, FALSE)

\* Row for tuples: Ok((rows.column_value::<T>()?, rows.column_value::<TT>()?, ..)),
\* column_value being C::try_decode(self.decoder.reader())
RECURSIVE try_decode_row(_, _, _)
try_decode_row(types, reader, row) ==
    IF types = << >>
    THEN Ok(row, reader)
    ELSE LET col == try_decode(Head(types), reader) IN
         IF col.ok
         THEN try_decode_row(Tail(types), col.rest, Append(row, col.val))
         ELSE col

\* --------------------------------------------------- the codec's callers
CodecTypes ==
    { Ty("i32"), Ty("bool"), Ty("String"), Ty("NaiveDate"),
      OptionOf(Ty("i32")), OptionOf(Ty("String")), OptionOf(Ty("NaiveDate")),
      VecOf(Ty("i32")), VecOf(Ty("String")), OptionOf(VecOf(Ty("i32"))) }

\* the values drawn of each type: negative and positive integers, the empty
\* string, the empty list, the day before the epoch, the epoch, the day after
RECURSIVE ValuesOf(_)
ValuesOf(T) ==
    CASE Head(T) = "i32" -> { -1, 0, 42 }
      [] Head(T) = "bool" -> BOOLEAN
      [] Head(T) = "String" -> SeqUpTo({ 97, 98 }, MaxLen)
      [] Head(T) = "NaiveDate" -> (EpochDaysFromCe - 1)..(EpochDaysFromCe + 1)
      [] Head(T) = "Option" -> { NoneOf(Tail(T)) } \cup { Some(x) : x \in ValuesOf(Tail(T)) }
      [] Head(T) = "Vec" -> SeqUpTo(ValuesOf(Tail(T)), MaxLen)

\* the [value] cells a server can send for a column: null, "not set", an
\* empty value, and values of one to four bytes
RowCells ==
    { BE_NULL_BYTES_LEN, BE_UNSET_BYTES_LEN, i32_to_be_bytes(0) }
        \cup { i32_to_be_bytes(Len(b)) \o b : b \in SeqUpTo({ 97, 98 }, MaxLen) \ { << >> } }
        \cup { BE_4_BYTES_LEN \o i32_to_be_bytes(n) : n \in { -1, 0, 42 } }

\* rows of two columns, an i32 and an optional column
RowInputs ==
    { [kind |-> "row", types |-> << Ty("i32"), OptionOf(T) >>,
       bytes |-> (BE_4_BYTES_LEN \o i32_to_be_bytes(42)) \o cell] :
         T \in { Ty("i32"), Ty("String") }, cell \in RowCells }

ValueInputs ==
    UNION { { [kind |-> "value", type |-> T, v |-> x] : x \in ValuesOf(T) } : T \in CodecTypes }

\* a caller holds a value to bind or a row received, in a build that checks
\* integer overflow ("debug") or one that wraps ("release")
CodecInit ==
    /\ NonCodecIdle
    /\ pc = "start"
    /\ build \in { "debug", "release" }
    /\ input \in ValueInputs \cup RowInputs
    /\ wire = << >>
    /\ decoded = << >>

\* value.encode_new()
Encode ==
    /\ pc = "start"
    /\ input.kind = "value"
    /\ wire' = encode_new(input.type, input.v)
    /\ pc' = "encoded"
    /\ UNCHANGED << build, input, decoded >>
    /\ UNCHANGED nonCodecVars

\* T::try_decode(&mut reader) on the bytes encoded (the thread that panicked
\* while encoding has nothing to decode)
Decode ==
    /\ pc = "encoded"
    /\ wire # Panicked
    /\ decoded' = try_decode(input.type, wire)
    /\ pc' = "decoded"
    /\ UNCHANGED << build, input, wire >>
    /\ UNCHANGED nonCodecVars

\* <(T, TT) as Row>::try_decode_row on the row received
DecodeRow ==
    /\ pc = "start"
    /\ input.kind = "row"
    /\ wire' = input.bytes
    /\ decoded' = try_decode_row(input.types, input.bytes, << >>)
    /\ pc' = "decoded"
    /\ UNCHANGED << build, input >>
    /\ UNCHANGED nonCodecVars

CodecNext == Encode \/ Decode \/ DecodeRow

CodecSpec == CodecInit /\ [][CodecNext]_vars

\* the second cell of the row received: its length and whether it was
\* decoded as present
SecondCellLength == i32_from_be_bytes(SubSeq(input.bytes, 9, 12))
ExampleRow == << 0, 0, 0, 4, 0, 0, 0, 42, 255, 255, 255, 255 >>

\* C17: for every supported type, decoding the encoding of a value gives the
\* value back: encoding completes, decoding succeeds, and the value decoded
\* equals the value encoded (optional values, empty strings and lists and
\* dates before the epoch included).
C17_RoundTrip ==
    /\ (pc = "encoded" /\ input.kind = "value") => wire # Panicked
    /\ (pc = "decoded" /\ input.kind = "value") => (decoded.ok /\ decoded.val = input.v)

\* C18: an optional column decodes to absent when its length is negative and
\* to present otherwise, and the row [00 00 00 04 00 00 00 2A][FF FF FF FF]
\* decodes to (42, None).
C18_OptionalByLength ==
    (pc = "decoded" /\ input.kind = "row" /\ decoded.ok) =>
        /\ decoded.val[2].some <=> (SecondCellLength >= 0)
        /\ (input.bytes = ExampleRow /\ input.types[2] = OptionOf(Ty("i32")))
              => decoded.val = << 42, NoneOf(Ty("i32")) >>
\* ================================================ the compression adapters
\* (cql/compression/mod.rs)
\* Longest body, beyond the nine bytes the round-trip property asks for.
MaxBody == 10

\* the frame header: version, flags, stream (2), opcode, length (4)
HeaderLen == 9
\* header flag (cql::frame::header)
COMPRESSION == 1

\* buffer[1] & COMPRESSION == COMPRESSION (the flags are the second byte)
compression_flag_set(buffer) == (buffer[2] \div COMPRESSION) % 2 = 1

\* buffer[9..]
BodyOf(buffer) == SubSeq(buffer, HeaderLen + 1, Len(buffer))
\* i32::from_be_bytes(buffer[5..9])
LengthField(buffer) == i32_from_be_bytes(SubSeq(buffer, 6, 9))

Zeros(n) == [i \in 1..n |-> 0]

\* The block codecs are external (lz4::block, snap::raw).  They are modelled
\* by a run-length code behind a little-endian size prefix: lossless, never
\* the identity, and failing on input that is not the image of a compression.
RunLength(s) ==
    CHOOSE k \in 1..Len(s) :
        /\ \A i \in 1..k : s[i] = s[1]
        /\ k = Len(s) \/ s[k + 1] # s[1]

RECURSIVE Runs(_)
Runs(s) ==
    IF s = << >> THEN << >>
    ELSE << RunLength(s), s[1] >> \o Runs(SubSeq(s, RunLength(s) + 1, Len(s)))

RECURSIVE Unruns(_)
Unruns(c) ==
    IF c = << >> THEN Ok(<< >>, << >>)
    ELSE IF Len(c) < 2 \/ c[1] = 0 THEN Failed("Err")
    ELSE LET more == Unruns(SubSeq(c, 3, Len(c))) IN
         IF more.ok THEN Ok([i \in 1..c[1] |-> c[2]] \o more.val, << >>) ELSE more

\* lz4::block::compress(src, None, true) / snap::raw::Encoder::compress_vec
block_compress(src) ==
    << ByteOf(Len(src), 0), ByteOf(Len(src), 1), ByteOf(Len(src), 2), ByteOf(Len(src), 3) >>
        \o Runs(src)

\* lz4::block::decompress(src, None) / snap::raw::Decoder::decompress_vec
block_decompress(src) ==
    IF Len(src) < 4 THEN Failed("Err")
    ELSE LET out == Unruns(SubSeq(src, 5, Len(src))) IN
         IF out.ok /\ Len(out.val) = src[1] + 256 * src[2] + 65536 * src[3] + 16777216 * src[4]
         THEN out
         ELSE Failed("Err")

\* &buffer[9..(9 + compressed_body_length)]: out of the buffer, it panics
compressed_body(buffer) ==
    IF LengthField(buffer) < 0 \/ HeaderLen + LengthField(buffer) > Len(buffer)
    THEN Failed("panic")
    ELSE Ok(SubSeq(buffer, HeaderLen + 1, HeaderLen + LengthField(buffer)), << >>)

\* buffer.truncate(5); buffer.extend(&i32::to_be_bytes(body.len())); buffer.extend(&body)
with_body(buffer, body) == SubSeq(buffer, 1, 5) \o i32_to_be_bytes(Len(body)) \o body

\* compress without rewriting the length field
Lz4_compress_stale_length(buffer) ==
    IF Len(buffer) < HeaderLen THEN Failed("Err")
    ELSE Ok(SubSeq(buffer, 1, HeaderLen) \o block_compress(BodyOf(buffer)), << >>)

\* <Lz4 as Compression>::compress
Lz4_compress(buffer) ==
    IF Len(buffer) < HeaderLen THEN Failed("Err")
    ELSE Ok(with_body(buffer, block_compress(BodyOf(buffer))), << >>)

\* <Lz4 as Compression>::decompress
Lz4_decompress(buffer) ==
    IF Len(buffer) < HeaderLen THEN Failed("Err")
    ELSE IF compression_flag_set(buffer)
         THEN LET src == compressed_body(buffer) IN
              IF ~src.ok THEN src
              ELSE IF block_decompress(src.val).ok
                   THEN Ok(with_body(buffer, block_decompress(src.val).val), << >>)
                   \* Err(_) => buffer.truncate(9)
                   ELSE Ok(SubSeq(buffer, 1, HeaderLen), << >>)
         ELSE Ok(buffer, << >>)

\* <Snappy as Compression>::compress
Snappy_compress(buffer) ==
    IF Len(buffer) < HeaderLen THEN Failed("Err")
    ELSE Ok(with_body(buffer, block_compress(BodyOf(buffer))), << >>)

\* <Snappy as Compression>::decompress
Snappy_decompress(buffer) ==
    IF Len(buffer) < HeaderLen THEN Failed("Err")
    ELSE IF compression_flag_set(buffer)
         THEN LET src == compressed_body(buffer) IN
              IF ~src.ok THEN src
              ELSE IF block_decompress(src.val).ok
                   THEN Ok(with_body(buffer, block_decompress(src.val).val), << >>)
                   \* decompress_vec(..)?
                   ELSE Failed("Err")
         ELSE Ok(buffer, << >>)

\* <Uncompressed as Compression>::compress
Uncompressed_compress(buffer) ==
    IF Len(buffer) < HeaderLen THEN Failed("Err")
    ELSE Ok(SubSeq(buffer, 1, 5) \o i32_to_be_bytes(Len(buffer) - HeaderLen) \o BodyOf(buffer), << >>)

\* <Uncompressed as Compression>::decompress
Uncompressed_decompress(buffer) ==
    IF Len(buffer) < HeaderLen THEN Failed("Err") ELSE Ok(buffer, << >>)

Adapters == { "Lz4", "Snappy", "Uncompressed" }

\* <MyCompression as Compression>::compress
compress(adapter, buffer) ==
    CASE adapter = "Lz4" -> Lz4_compress(buffer)
      [] adapter = "Snappy" -> Snappy_compress(buffer)
      [] adapter = "Uncompressed" -> Uncompressed_compress(buffer)

\* <MyCompression as Compression>::decompress
decompress(adapter, buffer) ==
    CASE adapter = "Lz4" -> Lz4_decompress(buffer)
      [] adapter = "Snappy" -> Snappy_decompress(buffer)
      [] adapter = "Uncompressed" -> Uncompressed_decompress(buffer)

\* a version-4 QUERY header on stream 0 with the flags and the length given
FrameHeader(flags, length) == << 4, flags, 0, 0, 7 >> \o i32_to_be_bytes(length)

\* the bodies a frame builder hands to compress: none, all-zero ones of nine
\* bytes and more, and one that is not all zero
BuiltBodies == { << >>, << 1, 1, 2 >> } \cup { Zeros(n) : n \in 9..MaxBody }

\* frames as the builders leave them: the length still the placeholder 0, or
\* already the body's length; COMPRESSION and TRACING set or clear
BuiltFrames ==
    UNION { { FrameHeader(flags, length) \o body : flags \in 0..3, length \in { 0, Len(body) } } :
              body \in BuiltBodies }
        \cup { << 4, 0, 0 >> }

\* frames as the receiver reads them: a header and the `length` bytes behind
\* it, which are a compressed body, nothing, or not the image of a compression
ReceivedFrames ==
    { FrameHeader(flags, Len(body)) \o body :
        flags \in 0..3,
        body \in { << >>, << 1, 1, 2 >>, << 2, 0, 0, 0, 0, 7 >>, block_compress(Zeros(9)) } }

CompressionInit ==
    /\ NonCodecIdle
    /\ pc = "start"
    /\ build = "release"
    /\ input \in { [kind |-> "built", adapter |-> a, buffer |-> b] : a \in Adapters, b \in BuiltFrames }
                   \cup { [kind |-> "received", adapter |-> a, buffer |-> b] : a \in Adapters, b \in ReceivedFrames }
    /\ wire = << >>
    /\ decoded = << >>

\* MyCompression::get().compress(buffer) of a frame built
Compress ==
    /\ pc = "start"
    /\ input.kind = "built"
    /\ wire' = compress(input.adapter, input.buffer)
    /\ pc' = "compressed"
    /\ UNCHANGED << build, input, decoded >>
    /\ UNCHANGED nonCodecVars

\* decompress of the frame compress returned
Decompress ==
    /\ pc = "compressed"
    /\ wire.ok
    /\ decoded' = decompress(input.adapter, wire.val)
    /\ pc' = "decompressed"
    /\ UNCHANGED << build, input, wire >>
    /\ UNCHANGED nonCodecVars

\* decompress of a frame received
DecompressReceived ==
    /\ pc = "start"
    /\ input.kind = "received"
    /\ wire' = Ok(input.buffer, << >>)
    /\ decoded' = decompress(input.adapter, input.buffer)
    /\ pc' = "decompressed"
    /\ UNCHANGED << build, input >>
    /\ UNCHANGED nonCodecVars

CompressionNext == Compress \/ Decompress \/ DecompressReceived

CompressionSpec == CompressionInit /\ [][CompressionNext]_vars

\* the frame given has a body of at least nine bytes, all zero
ZeroBodied(buffer) ==
    /\ Len(buffer) >= HeaderLen + 9
    /\ BodyOf(buffer) = Zeros(Len(buffer) - HeaderLen)

RoundTripped == pc = "decompressed" /\ input.kind = "built" /\ ZeroBodied(input.buffer)

FlagClearUnchanged ==
    (/\ pc = "decompressed"
     /\ Len(wire.val) >= HeaderLen
     /\ ~compression_flag_set(wire.val)) => (decoded.ok /\ decoded.val = wire.val)

\* C19 (as stated): for each adapter, compressing a frame whose body is at
\* least nine all-zero bytes and then decompressing it yields the original
\* frame, and decompressing a frame of at least nine bytes whose COMPRESSION
\* flag is clear returns the input unchanged.
C19_RoundTrip ==
    /\ RoundTripped => (decoded.ok /\ decoded.val = input.buffer)
    /\ FlagClearUnchanged

\* C19 (amended): the round trip yields the original frame when the frame's
\* length field is its body length and, for LZ4 and Snappy, its COMPRESSION
\* flag is set; when the flag is clear, LZ4 and Snappy give back the
\* compressed frame.  Decompression with the flag clear returns its input.
C19_RoundTripAmended ==
    /\ (/\ RoundTripped
        /\ LengthField(input.buffer) = Len(BodyOf(input.buffer))
        /\ input.adapter = "Uncompressed" \/ compression_flag_set(input.buffer))
           => (decoded.ok /\ decoded.val = input.buffer)
    /\ (/\ RoundTripped
        /\ input.adapter # "Uncompressed"
        /\ ~compression_flag_set(input.buffer))
           => (decoded.ok /\ decoded.val = wire.val /\ decoded.val # input.buffer)
    /\ FlagClearUnchanged

C19_Witness ==
    /\ RoundTripped
    /\ input.adapter = "Lz4"
    /\ compression_flag_set(input.buffer)
    /\ wire.val # input.buffer
    /\ decoded.ok
    /\ decoded.val = input.buffer

\* C20: every frame compress or decompress returns has a length field (bytes
\* 5..9) equal to the number of body bytes behind the nine-byte header, also
\* when LZ4 decompression fails.
C20_LengthFieldIsBodyLength ==
    /\ (pc = "compressed" /\ wire.ok) => LengthField(wire.val) = Len(BodyOf(wire.val))
    /\ (pc = "decompressed" /\ decoded.ok) => LengthField(decoded.val) = Len(BodyOf(decoded.val))

\* ==================================================== the BATCH frame builder
\* (cql/frame/batch.rs) and the process-wide compression switch
\* (cql/compression/mod.rs, MyCompression)
\* Most statements of a batch, most values bound to a statement, and most
\* calls of MyCompression::set_* while the frame is built.
MaxEntries == 2
MaxValues == 1
MaxSwitches == 1

\* batch flags (cql::frame::batchflags)
NOFLAGS == 0
SERIAL_CONSISTENCY == 16
TIMESTAMP == 32
\* the [short] length of a prepared id (cql::frame)
MD5_BE_LENGTH == << 0, 16 >>
BE_8_BYTES_LEN == << 0, 0, 0, 8 >>

\* enum Consistency as u16
Consistency(name) ==
    CASE name = "One" -> 1
      [] name = "Quorum" -> 4
      [] name = "Serial" -> 8
      [] name = "LocalSerial" -> 9

\* the blanket header [4, 0, 0, 0, BATCH, 0, 0, 0, 0]
BATCH_HEADER == << 4, 0, 0, 0, Opcode("BATCH"), 0, 0, 0, 0 >>

u16_to_be_bytes(n) == << n \div 256, n % 256 >>
\* i64::to_be_bytes of a value that fits 32 bits
i64_to_be_bytes(n) ==
    (IF n >= 0 THEN << 0, 0, 0, 0 >> ELSE << 255, 255, 255, 255 >>) \o i32_to_be_bytes(n)

\* a | b on bytes
RECURSIVE BitOr(_, _)
BitOr(a, b) ==
    IF a = 0 THEN b
    ELSE IF b = 0 THEN a
    ELSE (IF a % 2 = 1 \/ b % 2 = 1 THEN 1 ELSE 0) + 2 * BitOr(a \div 2, b \div 2)

\* MyCompression::flag() of a switch that selects the adapter
FlagOf(adapter) == IF adapter = "Uncompressed" THEN 0 ELSE 1

\* an argument not passed
Absent == 0 - 1

\* self.buffer[self.stage.index..(self.stage.index + 2)]
\*     .copy_from_slice(&u16::to_be_bytes(self.stage.value_count))
commit_value_count(b) ==
    [b EXCEPT !.buffer = [i \in DOMAIN b.buffer |->
        IF i = b.index + 1 THEN u16_to_be_bytes(b.value_count)[1]
        ELSE IF i = b.index + 2 THEN u16_to_be_bytes(b.value_count)[2]
        ELSE b.buffer[i]]]

\* the statement or id pushed by Statements::statement / Statements::id, with
\* the zero value_count padded behind it
entry(b, kind) ==
    LET with == b.buffer \o (IF kind = "statement"
                             THEN << 0 >> \o i32_to_be_bytes(1) \o << 115 >>
                             ELSE << 1 >> \o MD5_BE_LENGTH \o Zeros(16))
    IN [b EXCEPT !.buffer = with \o << 0, 0 >>,
                 !.query_count = @ + 1,
                 !.index = Len(with),
                 !.value_count = 0,
                 !.stage = "BatchValues"]

BatchInit ==
    /\ ReporterInit
    /\ CodecIdle
    /\ AtomicIdle
    /\ IterIdle
    /\ MY_COMPRESSION \in Adapters
    /\ MY_COMPRESSION_FLAG = FlagOf(MY_COMPRESSION)
    /\ builder = [stage |-> "none"]
    /\ switcher = [pc |-> "idle", target |-> MY_COMPRESSION, n |-> 0]

\* BatchBuilder::new
BatchNew ==
    /\ builder.stage = "none"
    /\ builder' = [stage |-> "BatchType", buffer |-> BATCH_HEADER, query_count |-> 0,
                   value_count |-> 0, index |-> 0, consistency |-> Absent,
                   serial |-> Absent, timestamp |-> Absent, used |-> "none"]
    /\ UNCHANGED << MY_COMPRESSION, MY_COMPRESSION_FLAG, switcher >>
    /\ UNCHANGED nonBatchVars

\* logged / unlogged / counter / batch_type
BatchSetType ==
    /\ builder.stage = "BatchType"
    /\ \E t \in 0..2 :
         builder' = [builder EXCEPT !.buffer = @ \o << t, 0, 0 >>, !.stage = "BatchStatementOrId"]
    /\ UNCHANGED << MY_COMPRESSION, MY_COMPRESSION_FLAG, switcher >>
    /\ UNCHANGED nonBatchVars

\* Statements::statement / Statements::id, for the first and for a later query
BatchStatement ==
    /\ builder.stage \in { "BatchStatementOrId", "BatchValues" }
    /\ builder.query_count < MaxEntries
    /\ \E kind \in { "statement", "id" } :
         builder' = entry(IF builder.stage = "BatchValues"
                          THEN commit_value_count(builder) ELSE builder, kind)
    /\ UNCHANGED << MY_COMPRESSION, MY_COMPRESSION_FLAG, switcher >>
    /\ UNCHANGED nonBatchVars

\* Binder::value / unset_value / null_value
BatchValue ==
    /\ builder.stage = "BatchValues"
    /\ builder.value_count < MaxValues
    /\ \E v \in { encode(Ty("i32"), 42), BE_UNSET_BYTES_LEN, BE_NULL_BYTES_LEN } :
         builder' = [builder EXCEPT !.buffer = @ \o v, !.value_count = @ + 1]
    /\ UNCHANGED << MY_COMPRESSION, MY_COMPRESSION_FLAG, switcher >>
    /\ UNCHANGED nonBatchVars

\* BatchBuilder<Type, BatchValues>::consistency
BatchConsistency ==
    /\ builder.stage = "BatchValues"
    /\ \E c \in { Consistency("One"), Consistency("Quorum") } :
         builder' = [commit_value_count(builder) EXCEPT
                        !.buffer = @ \o u16_to_be_bytes(c),
                        !.consistency = c,
                        !.stage = "BatchFlags"]
    /\ UNCHANGED << MY_COMPRESSION, MY_COMPRESSION_FLAG, switcher >>
    /\ UNCHANGED nonBatchVars

\* BatchBuilder<Type, BatchFlags>::serial_consistency
BatchSerialConsistency ==
    /\ builder.stage = "BatchFlags"
    /\ \E c \in { Consistency("Serial"), Consistency("LocalSerial") } :
         builder' = [builder EXCEPT
                        !.buffer = (@ \o << SERIAL_CONSISTENCY >>) \o u16_to_be_bytes(c),
                        !.serial = c,
                        !.stage = "BatchTimestamp"]
    /\ UNCHANGED << MY_COMPRESSION, MY_COMPRESSION_FLAG, switcher >>
    /\ UNCHANGED nonBatchVars

Timestamps == { 1, 1700000000 }

\* BatchBuilder<Type, BatchFlags>::timestamp: pushes the flags byte
\* BatchBuilder<Type, BatchTimestamp>::timestamp: ors TIMESTAMP into the last
\* byte of the buffer
BatchSetTimestamp ==
    /\ builder.stage \in { "BatchFlags", "BatchTimestamp" }
    /\ \E t \in Timestamps :
         builder' = [builder EXCEPT
                        !.buffer = (IF builder.stage = "BatchFlags"
                                    THEN @ \o << TIMESTAMP >>
                                    ELSE [@ EXCEPT ![Len(@)] = BitOr(@, TIMESTAMP)])
                                   \o BE_8_BYTES_LEN \o i64_to_be_bytes(t),
                        !.timestamp = t,
                        !.stage = "BatchBuild"]
    /\ UNCHANGED << MY_COMPRESSION, MY_COMPRESSION_FLAG, switcher >>
    /\ UNCHANGED nonBatchVars

\* build, up to the call of compress: self.buffer[1] |= MyCompression::flag(),
\* the NOFLAGS byte when no flag was pushed, and the query count
BatchBuildFlag ==
    /\ builder.stage \in { "BatchFlags", "BatchTimestamp", "BatchBuild" }
    /\ LET flagged == [builder.buffer EXCEPT ![2] = BitOr(@, MY_COMPRESSION_FLAG)]
           padded == IF builder.stage = "BatchFlags" THEN flagged \o << NOFLAGS >> ELSE flagged
       IN builder' = [builder EXCEPT
                        !.buffer = [padded EXCEPT ![11] = u16_to_be_bytes(builder.query_count)[1],
                                                  ![12] = u16_to_be_bytes(builder.query_count)[2]],
                        !.stage = "compressing"]
    /\ UNCHANGED << MY_COMPRESSION, MY_COMPRESSION_FLAG, switcher >>
    /\ UNCHANGED nonBatchVars

\* build: self.buffer = MyCompression::get().compress(self.buffer)?
BatchBuildCompress ==
    /\ builder.stage = "compressing"
    /\ builder' = [builder EXCEPT
                     !.buffer = compress(MY_COMPRESSION, builder.buffer).val,
                     !.used = MY_COMPRESSION,
                     !.stage = "built"]
    /\ UNCHANGED << MY_COMPRESSION, MY_COMPRESSION_FLAG, switcher >>
    /\ UNCHANGED nonBatchVars

\* set_lz4 / set_snappy / set_uncompressed in another thread: MY_COMPRESSION = ..
SwitchAdapter ==
    /\ switcher.pc = "idle"
    /\ switcher.n < MaxSwitches
    /\ \E a \in Adapters :
         /\ MY_COMPRESSION' = a
         /\ switcher' = [pc |-> "flag", target |-> a, n |-> switcher.n + 1]
    /\ UNCHANGED << MY_COMPRESSION_FLAG, builder >>
    /\ UNCHANGED nonBatchVars

\* .. and then MY_COMPRESSION_FLAG = ..
SwitchFlag ==
    /\ switcher.pc = "flag"
    /\ MY_COMPRESSION_FLAG' = FlagOf(switcher.target)
    /\ switcher' = [switcher EXCEPT !.pc = "idle"]
    /\ UNCHANGED << MY_COMPRESSION, builder >>
    /\ UNCHANGED nonBatchVars

BatchNext ==
    \/ BatchNew
    \/ BatchSetType
    \/ BatchStatement
    \/ BatchValue
    \/ BatchConsistency
    \/ BatchSerialConsistency
    \/ BatchSetTimestamp
    \/ BatchBuildFlag
    \/ BatchBuildCompress
    \/ SwitchAdapter
    \/ SwitchFlag

BatchSpec == BatchInit /\ [][BatchNext]_vars

\* C21: a built frame has the COMPRESSION header flag set only when its body
\* was transformed by the compression adapter (LZ4 or Snappy), whenever the
\* switch is changed: before the builder is created, between its creation and
\* build, or while build runs.
C21_FlagOnlyWhenTransformed ==
    (builder.stage = "built" /\ compression_flag_set(builder.buffer))
        => builder.used # "Uncompressed"

\* the trailer a batch body ends with: consistency, flags, and the optional
\* serial consistency and timestamp
Trailer(consistency, serial, timestamp) ==
    u16_to_be_bytes(consistency)
        \o << (IF serial # Absent THEN SERIAL_CONSISTENCY ELSE 0)
                + (IF timestamp # Absent THEN TIMESTAMP ELSE 0) >>
        \o (IF serial # Absent THEN u16_to_be_bytes(serial) ELSE << >>)
        \o (IF timestamp # Absent THEN i64_to_be_bytes(timestamp) ELSE << >>)

EndsWith(seq, tail) ==
    /\ Len(seq) >= Len(tail)
    /\ SubSeq(seq, Len(seq) - Len(tail) + 1, Len(seq)) = tail

\* C23: in the body handed to compress, one flags byte follows the consistency
\* short and precedes the optional serial consistency and timestamp; it has
\* 0x10 set iff a serial consistency was given and 0x20 set iff a timestamp
\* was given; with LOCAL_SERIAL and a timestamp the body ends with
\* [consistency][30][00 09][timestamp].
C23_BatchTrailer ==
    builder.stage = "compressing" =>
        EndsWith(BodyOf(builder.buffer),
                 Trailer(builder.consistency, builder.serial, builder.timestamp))

\* ============================================================ token chains
\* (cql/frame/encoder.rs, TokenEncodeChain and TokenEncoder)
\* Most columns of a partition key.
MaxKey == 2

\* TokenEncodeChain::default()
EmptyChain == [len |-> 0, some |-> FALSE, buffer |-> << >>]

\* From<&T> for TokenEncodeChain: Some(t.encode_new()[2..].into())
TokenEncodeChain_from(T, v) ==
    [len |-> 1, some |-> TRUE, buffer |-> SubSeq(encode(T, v), 3, Len(encode(T, v)))]

\* TokenEncodeChain::append
append(chain, other) ==
    IF other.len > 0 /\ other.some
    THEN IF chain.some
         THEN [chain EXCEPT !.buffer = (@ \o << 0 >>) \o other.buffer, !.len = @ + 1]
         ELSE [len |-> 1, some |-> TRUE, buffer |-> other.buffer]
    ELSE chain

\* TokenEncodeChain::finish: the bytes given to murmur3_cassandra_x64_128, or
\* no bytes at all when the token is rand::random()
finish(chain) ==
    CASE chain.len = 0 -> [random |-> TRUE, bytes |-> << >>]
      [] chain.len = 1 -> [random |-> FALSE, bytes |-> SubSeq(chain.buffer, 3, Len(chain.buffer))]
      [] OTHER -> [random |-> FALSE, bytes |-> chain.buffer]

\* the columns of a partition key: strings (the empty one included) and i32
KeyColumns ==
    { [type |-> Ty("String"), v |-> x] : x \in ValuesOf(Ty("String")) }
        \cup { [type |-> Ty("i32"), v |-> 42] }

TokenInit ==
    /\ NonCodecIdle
    /\ pc = "chaining"
    /\ build = "release"
    /\ input \in { [kind |-> "key", columns |-> k] : k \in SeqUpTo(KeyColumns, MaxKey) }
    /\ wire = EmptyChain
    /\ decoded = << >>

\* (T, TT, ..)::encode_token: token_chain.append(column), one column after
\* the other
TokenAppend ==
    /\ pc = "chaining"
    /\ wire.len < Len(input.columns)
    /\ wire' = append(wire, LET column == input.columns[wire.len + 1]
                            IN TokenEncodeChain_from(column.type, column.v))
    /\ UNCHANGED << pc, build, input, decoded >>
    /\ UNCHANGED nonCodecVars

\* TokenEncoder::token: self.encode_token().finish()
TokenFinish ==
    /\ pc = "chaining"
    /\ wire.len = Len(input.columns)
    /\ decoded' = finish(wire)
    /\ pc' = "hashed"
    /\ UNCHANGED << build, input, wire >>
    /\ UNCHANGED nonCodecVars

TokenNext == TokenAppend \/ TokenFinish

TokenSpec == TokenInit /\ [][TokenNext]_vars

\* value1 || 0x00 || value2 || 0x00 || .. of raw column bytes
RECURSIVE RawChain(_)
RawChain(columns) ==
    IF columns = << >> THEN << >>
    ELSE (encode_column(Head(columns).type, Head(columns).v) \o << 0 >>) \o RawChain(Tail(columns))

\* C22: the bytes hashed for a token chain contain no length prefix: for one
\* value they are the value's raw bytes, for several values they are
\* value1 || 0x00 || value2 || 0x00 || .. (with or without the 0x00 behind the
\* last value), hashed once.
C22_TokenBytes ==
    (pc = "hashed" /\ Len(input.columns) >= 1) =>
        /\ ~decoded.random
        /\ IF Len(input.columns) = 1
           THEN decoded.bytes = encode_column(input.columns[1].type, input.columns[1].v)
           ELSE \/ decoded.bytes = RawChain(input.columns)
                \/ decoded.bytes \o << 0 >> = RawChain(input.columns)

\* ------------------------------------------- claims on the retry budget
\* in this step worker w, answered UNPREPARED, is sent to the reporter again
UnpreparedCycle(w) ==
    /\ UnpreparedCallback(w)
    /\ \E i \in DOMAIN inbox' : inbox'[i] = Request(w)

\* C25: every Prepare-and-resubmit cycle a request goes through on an
\* Unprepared error consumes one of the worker's remaining retries, so that
\* the number of cycles is bounded by the retry budget.
C25_UnpreparedConsumesRetry ==
    [][\A w \in AnyWorkers : UnpreparedCycle(w) =>
          (retries[w] > 0 /\ retries'[w] = retries[w] - 1)]_vars

\* C26: the remaining retries of a worker never increase and never go below
\* zero, and every resubmission through retry() takes one of them, so that a
\* worker created with r retries is resubmitted through retry() at most r
\* times; this also holds when the ring send fails during a retry and the
\* failure is fed back into handle_error.
C26_RetryBudget ==
    [][\A w \in AnyWorkers :
          /\ retries'[w] >= 0
          /\ w <= submitted => retries'[w] <= retries[w]
          /\ (RetryableCallback(w) /\ \E i \in DOMAIN inbox' : inbox'[i] = Request(w))
                => (retries[w] > 0 /\ retries'[w] = retries[w] - 1)]_vars

\* a worker told Lost while the ring no longer delivers: its retry on the
\* fly failed, took the retry it had left, and the caller was told Other
C26_Witness ==
    \E w \in AnyWorkers :
        /\ cb[w] # << >>
        /\ Last(cb[w]) = "Lost"
        /\ retries[w] = 0
        /\ results[w] = << "Other" >>
        /\ ~IsQueued(w)

\* in this step the reporter takes the event at the head of its inbox and
\* puts nothing behind it
TakesHead == Len(inbox') = Len(inbox) - 1

\* C27: a Response or an Err for a stream id under which no worker is
\* registered leaves the free list, the workers map and the payloads array
\* as they were.
C27_UnknownStreamIgnored ==
    [][(/\ Receives("Response") \/ Receives("Err")
        /\ Head(inbox).stream_id \notin DOMAIN workers
        /\ TakesHead)
          => UNCHANGED << streams, workers, payloads >>]_vars

\* C29: a slot of the payloads array holds a payload exactly while its stream
\* id is in flight, and a request that is sent again after an error is
\* resent from the buffer parked for it under the stream id it is assigned.
C29_PayloadParkedWhileInFlight ==
    [][/\ \A s \in StreamIds : (payloads'[s] # None) <=> (s \in DOMAIN workers')
       /\ (TakesRequest /\ handed[Head(inbox).worker] >= 1)
             => payloads[TopStream].owner = Head(inbox).worker]_vars

\* in this step the reporter handles the Response or Err of a stream id
\* under which a worker is registered
TakesAnswer ==
    /\ Receives("Response") \/ Receives("Err")
    /\ Head(inbox).stream_id \in DOMAIN workers
    /\ handed' = handed
    /\ Len(streams') = Len(streams) + 1

\* C29 (amended): a request is parked in payloads[stream] when it is assigned
\* a stream id, as a new copy of the request's payload under whichever id is
\* free, also for a request that is sent again; a slot holds a payload
\* whenever its stream id is in flight (it keeps the payload of workers
\* drained at exit), and it is emptied when the answer of a registered worker
\* is handled.
C29_PayloadParkedAmended ==
    [][/\ \A s \in StreamIds : (s \in DOMAIN workers') => (payloads'[s] # None)
       /\ (TakesRequest /\ streams # << >>) =>
             payloads'[TopStream] = assign_stream_to_payload(TopStream, payload(Head(inbox).worker))
       /\ TakesAnswer => payloads'[Head(inbox).stream_id] = None]_vars

\* the first worker, first parked under stream id N, is in flight a second
\* time under another stream id, parked there anew
C29_Witness ==
    \E s \in StreamIds \ { N } :
        /\ s \in DOMAIN workers
        /\ workers[s] = 1
        /\ handed[1] = 2
        /\ cb[1] # << >>
        /\ payloads[s] = assign_stream_to_payload(s, payload(1))

\* ------------------------------------------------- the life of a worker
\* The connection followed without end: the callers' requests, the reporter
\* that runs on, and a node that answers every request in flight. Nothing is
\* counted: the record of callbacks, the Sender's log and the number of
\* PrepareWorkers stay as they are (every PrepareWorker is alike and has
\* the id MaxWorkers + 1), so that a behaviour can go round for ever.
LifeWorld(st) == SetWorld([st EXCEPT !.nprep = 0])

\* run, ReporterEvent::Request with a free stream id
LifeRequestAssign ==
    /\ Receives("Request")
    /\ streams # << >>
    /\ LET stream == streams[Len(streams)] IN
          /\ streams' = SubSeq(streams, 1, Len(streams) - 1)
          /\ payloads' = [payloads EXCEPT
                            ![stream] = assign_stream_to_payload(stream, Head(inbox).payload)]
          /\ workers' = Insert(workers, stream, Head(inbox).worker)
    /\ inbox' = Tail(inbox)
    /\ UNCHANGED << closed, status, senderAlive, forwarded, sendFailed, shutdownSent,
                    retries, results, cb, handed, submitted, nprep, nrecv, dropped,
                    libraryVars >>

\* run, ReporterEvent::Request without a free stream id
LifeRequestOverload ==
    /\ Receives("Request")
    /\ streams = << >>
    /\ LifeWorld(Worker_handle_error(Taken, Head(inbox).worker, WorkerError("Overload"), TRUE))
    /\ UNCHANGED << streams, workers, payloads, closed, status, senderAlive, forwarded,
                    sendFailed, shutdownSent, cb, handed, submitted, nrecv, dropped,
                    libraryVars >>

\* The node answers the request in flight on stream s with frame f; the
\* Receiver parks f in payloads[s] and the reporter handles Response{s}
\* (handle_response) with no other event in between.
LifeAnswer(s) ==
    /\ status = "running"
    /\ s \in DOMAIN workers
    /\ \E f \in ResponseFrames(s) :
          /\ streams' = Append(streams, s)
          /\ workers' = Remove(workers, s)
          /\ payloads' = [payloads EXCEPT ![s] = None]
          /\ IF is_cql_error(f)
             THEN LifeWorld(Worker_handle_error(World, workers[s], DecodeError(f), TRUE))
             ELSE LifeWorld(Worker_handle_response(World, workers[s], f))
    /\ UNCHANGED << closed, status, senderAlive, forwarded, sendFailed, shutdownSent,
                    cb, handed, submitted, nrecv, dropped, libraryVars >>

LifeNext ==
    \/ Submit
    \/ LifeRequestAssign
    \/ LifeRequestOverload
    \/ \E s \in StreamIds : LifeAnswer(s)

\* The reporter task takes the event at the head of its inbox as long as
\* there is one, and the node answers every request that stays in flight.
LifeSpec ==
    /\ Init
    /\ [][LifeNext]_vars
    /\ WF_vars(LifeRequestAssign \/ LifeRequestOverload)
    /\ \A s \in StreamIds : WF_vars(LifeAnswer(s))

\* the worker is queued for the reporter or in flight
Alive(w) == IsQueued(w) \/ \E s \in DOMAIN workers : workers[s] = w

\* C24: every worker eventually terminates: a worker that is queued or in
\* flight is, after finitely many steps, neither (its response was handled,
\* its retries are exhausted or an error was surfaced); no worker is
\* resubmitted for ever.
C24_EveryWorkerTerminates ==
    \A w \in AnyWorkers : Alive(w) ~> ~Alive(w)

\* ------------------------------------------------------ the atomic handle
\* One Arc<AtomicHandle<H, R>> (worker/handle.rs): holder 0 is the caller
\* that made it, holders 1..MaxHolders are the workers given a clone.
\*   strong    the holders of a clone of the Arc
\*   handle    Option<H>: "Some" or "None"
\*   any_error AtomicI8: 0, 1, or -1 once disabled
\*   out       what the inner handle H has been given, in order
\*   called    some holder has called set_error
\*   taken     the inner handle was taken out with take()
MaxHolders == 3

\* a Drop that reports success whatever any_error holds
Drop_always_ok(a) ==
    IF a.handle = "Some" /\ a.any_error \in { 0, 1 }
    THEN [a EXCEPT !.handle = "None", !.out = Append(@, "Ok")]
    ELSE a

\* impl Drop for AtomicHandle: 0 => handle_response(reference),
\* 1 => handle_error(reference), anything else => nothing
Drop(a) ==
    IF a.handle = "Some" /\ a.any_error \in { 0, 1 }
    THEN [a EXCEPT !.handle = "None",
                   !.out = Append(@, IF a.any_error = 0 THEN "Ok" ELSE "Err")]
    ELSE a

\* drop of holder h's Arc: the AtomicHandle is dropped with the last one
Arc_drop(a, h) ==
    LET rest == [a EXCEPT !.strong = @ \ { h }] IN
    IF rest.strong = {} THEN Drop(rest) ELSE rest

\* AtomicHandle::set_error: compare_exchange(0, 1)
set_error(a) ==
    [a EXCEPT !.any_error = IF @ = 0 THEN 1 ELSE @, !.called = TRUE]

\* AtomicHandle::disable: store(-1)
disable(a) == [a EXCEPT !.any_error = 0 - 1]

\* the caller hands a clone of the Arc to one more worker
AtomicShare ==
    /\ 0 \in atomic.strong
    /\ atomic.spawned < MaxHolders
    /\ atomic' = [atomic EXCEPT !.spawned = @ + 1, !.strong = @ \cup { atomic.spawned + 1 }]
    /\ UNCHANGED nonAtomicVars

\* HandleResult::handle_response for Arc<AtomicHandle>: Ok(()), self dropped
AtomicHandleResponse(w) ==
    /\ w \in atomic.strong \ { 0 }
    /\ atomic' = Arc_drop(atomic, w)
    /\ UNCHANGED nonAtomicVars

\* HandleResult::handle_error for Arc<AtomicHandle>: set_error, self dropped
AtomicHandleError(w) ==
    /\ w \in atomic.strong \ { 0 }
    /\ atomic' = Arc_drop(set_error(atomic), w)
    /\ UNCHANGED nonAtomicVars

\* the caller calls disable() on its Arc
AtomicDisable ==
    /\ 0 \in atomic.strong
    /\ atomic.any_error # 0 - 1
    /\ atomic' = disable(atomic)
    /\ UNCHANGED nonAtomicVars

\* AtomicHandle::take on the caller's Arc: Arc::get_mut gives the handle out
\* only while no other clone exists (with other clones it returns None and
\* changes nothing)
AtomicTake ==
    /\ atomic.strong = { 0 }
    /\ atomic.handle = "Some"
    /\ atomic' = [atomic EXCEPT !.handle = "None", !.taken = TRUE]
    /\ UNCHANGED nonAtomicVars

\* the caller drops its Arc
AtomicCallerDrop ==
    /\ 0 \in atomic.strong
    /\ atomic' = Arc_drop(atomic, 0)
    /\ UNCHANGED nonAtomicVars

AtomicNext ==
    \/ AtomicShare
    \/ \E w \in 1..MaxHolders : AtomicHandleResponse(w)
    \/ \E w \in 1..MaxHolders : AtomicHandleError(w)
    \/ AtomicDisable
    \/ AtomicTake
    \/ AtomicCallerDrop

AtomicSpec == Init /\ [][AtomicNext]_vars

\* C28: an atomic handle shared by several workers delivers exactly one
\* result, and only once the last holder of its Arc has dropped it: an
\* error if some worker called set_error, a success otherwise, in whatever
\* order the workers finish.
C28_OneResultAfterLast ==
    /\ atomic.strong # {} => atomic.out = << >>
    /\ atomic.strong = {} => atomic.out = << IF atomic.called THEN "Err" ELSE "Ok" >>

\* C28 (amended): the handle delivers at most one result and only once the
\* last holder has dropped its Arc; it delivers none if disable() had been
\* called or the inner handle had been taken out with take(), and otherwise
\* exactly one: an error if some worker called set_error, a success if none.
C28_OneResultUnlessDisabled ==
    /\ atomic.strong # {} => atomic.out = << >>
    /\ atomic.strong = {} =>
          atomic.out = IF atomic.taken \/ atomic.any_error = 0 - 1 THEN << >>
                       ELSE IF atomic.called THEN << "Err" >> ELSE << "Ok" >>

\* three workers shared the handle, one of them set the error, and the
\* error was delivered when the last Arc was dropped
C28_Witness ==
    /\ atomic.strong = {}
    /\ atomic.spawned = MaxHolders
    /\ atomic.called
    /\ atomic.out = << "Err" >>

\* ------------------------------------------------------ the row iterators
\* Iter<T> and AnyIter (cql/frame/rows.rs) over the rows of one RESULT
\* frame, T a tuple of two columns. A usize is kept by its residue nearest
\* zero: -1 is usize::MAX, and "> 0" on a usize is "# 0".
\*   kind       "Iter" or "AnyIter"
\*   build      "debug" (overflow checks on) or "release" (wrapping)
\*   T          the row type the caller asks for
\*   frame      the cells of the frame behind the rows count
\*   reader     decoder.reader(): what the cursor has not read yet
\*   rows_count, remaining   remaining_rows_count of Iter,
\*              remaining_total_columns_count of AnyIter
\*   yielded    what the calls of next() have returned, in order
\*   panicked   a subtraction has overflowed under overflow checks
MaxRows == 2

\* the cells of a column of ints: null, or one of two values
IterCells ==
    { BE_NULL_BYTES_LEN } \cup { BE_4_BYTES_LEN \o i32_to_be_bytes(n) : n \in { 1, 2 } }

\* the row types: each column an i32 or an Option<i32>
IterRowTypes ==
    { << a, b >> : a \in { Ty("i32"), OptionOf(Ty("i32")) },
                   b \in { Ty("i32"), OptionOf(Ty("i32")) } }

\* Option<T>::None returned by next()
NoRow == [some |-> FALSE, v |-> << >>]

\* the reader a failed try_decode leaves behind: the length of the cell has
\* been read (a null cell has nothing behind it), or the reader was empty
behind_length(reader) == SubSeq(reader, 5, Len(reader))

\* <AnyIter as ColumnValue>::column_value: remaining_total_columns_count -= 1
\* (Iter's column_value counts nothing)
count_column(it) ==
    IF it.kind = "AnyIter"
    THEN IF it.remaining = 0 /\ it.build = "debug"
         THEN [it EXCEPT !.panicked = TRUE]
         ELSE [it EXCEPT !.remaining = @ - 1]
    ELSE it

\* <(T, TT) as Row>::try_decode_row(rows), column after column through
\* rows.column_value(), and .map_err(log).ok() on its result
RECURSIVE Row_try_decode_row(_, _, _)
Row_try_decode_row(it, types, row) ==
    IF types = << >>
    THEN [it EXCEPT !.yielded = Append(@, Some(row))]
    ELSE LET counted == count_column(it) IN
         IF counted.panicked
         THEN counted
         ELSE LET col == try_decode(Head(types), counted.reader) IN
              IF col.ok
              THEN Row_try_decode_row([counted EXCEPT !.reader = col.rest],
                                      Tail(types), Append(row, col.val))
              ELSE [counted EXCEPT !.reader = behind_length(@),
                                   !.yielded = Append(@, NoRow)]

\* Rows::new / AnyIter::new on a frame of rows_count rows of Len(T) columns
Rows_new(kind, b, T, cells) ==
    [kind |-> kind, build |-> b, T |-> T, frame |-> cells, reader |-> Flatten(cells),
     rows_count |-> Len(cells) \div Len(T),
     remaining |-> IF kind = "Iter" THEN Len(cells) \div Len(T) ELSE Len(cells),
     yielded |-> << >>, panicked |-> FALSE]

IterInit ==
    /\ ReporterInit
    /\ CodecIdle
    /\ BatchIdle
    /\ AtomicIdle
    /\ \E kind \in { "Iter", "AnyIter" }, b \in { "debug", "release" }, T \in IterRowTypes :
       \E n \in 0..MaxRows : \E cells \in [1..(2 * n) -> IterCells] :
          iter = Rows_new(kind, b, T, cells)

\* the caller asks for one more item, up to two calls past the last row
MayCall == ~iter.panicked /\ Len(iter.yielded) < iter.rows_count + 2

\* <Iter<T> as Iterator>::next
IterNext ==
    /\ iter.kind = "Iter"
    /\ MayCall
    /\ iter' = IF iter.remaining # 0
               THEN Row_try_decode_row([iter EXCEPT !.remaining = @ - 1], iter.T, << >>)
               ELSE [iter EXCEPT !.yielded = Append(@, NoRow)]
    /\ UNCHANGED nonIterVars

\* AnyIter::next::<T>
AnyIterNext ==
    /\ iter.kind = "AnyIter"
    /\ MayCall
    /\ iter' = IF iter.remaining # 0
               THEN Row_try_decode_row(iter, iter.T, << >>)
               ELSE [iter EXCEPT !.yielded = Append(@, NoRow)]
    /\ UNCHANGED nonIterVars

IterNextStep == IterNext \/ AnyIterNext

IterSpec == IterInit /\ [][IterNextStep]_vars

\* the k-th row of the frame, decoded on its own
RowOfFrame(k) ==
    try_decode_row(iter.T,
                   Flatten(SubSeq(iter.frame, Len(iter.T) * (k - 1) + 1, Len(iter.T) * k)),
                   << >>)

\* C30: the iterator yields the rows of the buffer in order, one per call,
\* each from the column_count cells of that row; its remaining counter never
\* underflows; and every call after the last row returns None.
C30_RowIterator ==
    /\ ~iter.panicked
    /\ iter.remaining >= 0
    /\ \A k \in DOMAIN iter.yielded :
          IF k <= iter.rows_count
          THEN /\ RowOfFrame(k).ok => iter.yielded[k] = Some(RowOfFrame(k).val)
               /\ iter.yielded[k].some => (RowOfFrame(k).ok /\ iter.yielded[k].v = RowOfFrame(k).val)
          ELSE ~iter.yielded[k].some

====
